---- MODULE Spec2Model ----
(***************************************************************************)
(* Model of the A1580 A-scan WebSocket client                              *)
(* (src/REST_API_Python/ascan_websocket.py): the stream buffer, the        *)
(* marker search / fixed-length extraction loop of _process_incoming_data, *)
(* the packet decoder _parse_packet, the callback list, and the caller's   *)
(* operations (connect, disconnect, set_ascan_length, clear_buffer) run    *)
(* against the receive threads.                                            *)
(*                                                                         *)
(* Spec           the receive path of a connected client, one thread       *)
(* SpecCallbacks  the same while on_data registers callbacks               *)
(* SpecAnyLength  the same for a client constructed with ascan_length < 0  *)
(* SpecParse      _parse_packet called on one slice                        *)
(* SpecThreads    the caller's thread and the receive threads interleaved  *)
(*                                                                         *)
(* Bytes are integers 0..255.  Byte sequences (bytes, bytearray) are TLA+  *)
(* sequences, so Python's 0-based offset k is index k+1 here.              *)
(***************************************************************************)
EXTENDS Integers, Sequences, FiniteSets, TLC

(***************************************************************************)
(* Bounds of the model.                                                    *)
(***************************************************************************)
\* ascan_length is drawn from 0..MaxAscanLength
MaxAscanLength == 1
\* at most this many packets follow the leading garbage on the wire
MaxPackets == 2
\* short leading garbage runs have 0..MaxShortGarbage bytes
MaxShortGarbage == 3
\* long leading garbage runs have 2*packet_size .. 2*packet_size+MaxOver bytes
MaxOver == 2
\* the decoder is applied to slices of 0..HEADER_LENGTH+MaxPayload bytes
MaxPayload == 5
\* a client constructed with a negative ascan_length has a packet size of
\* -2*MaxBelow .. 2*MaxShort
MaxBelow == 2
MaxShort == 3
\* a run is followed until this many slices have been extracted
MaxExtracted == 4
\* on_data is called at most this many times
MaxCallbacks == 2
\* connect starts at most this many threads
MaxThreads == 2
\* at most this many resets (set_ascan_length taking effect, clear_buffer,
\* connect) are made
MaxResets == 2

(***************************************************************************)
(* Protocol constants (__init__).                                          *)
(***************************************************************************)
\* self.MAGIC_BYTES = b'FtH1'  # 0x46, 0x74, 0x48, 0x31
MAGIC_BYTES == <<70, 116, 72, 49>>
\* self.HEADER_LENGTH = 28
HEADER_LENGTH == 28

(***************************************************************************)
(* Python sequence primitives.                                             *)
(***************************************************************************)
Min(a, b) == IF a <= b THEN a ELSE b
Max(a, b) == IF a >= b THEN a ELSE b

\* a slice index as Python normalises it: negative counts from the end,
\* and the result is clamped to 0..len
PyIndex(i, len) == IF i < 0 THEN Max(i + len, 0) ELSE Min(i, len)

\* s[i:]
PySliceFrom(s, i) == SubSeq(s, PyIndex(i, Len(s)) + 1, Len(s))

\* s[:j]
PySliceTo(s, j) == SubSeq(s, 1, PyIndex(j, Len(s)))

\* whether m occurs in s at 0-based offset i
OccursAt(s, m, i) ==
    /\ i >= 0
    /\ i + Len(m) <= Len(s)
    /\ \A k \in 1..Len(m) : s[i + k] = m[k]

\* bytearray.find(m): the lowest 0-based offset at which m occurs, or -1
Find(s, m) ==
    LET hits == {i \in 0..(Len(s) - Len(m)) : OccursAt(s, m, i)}
    IN  IF hits = {} THEN -1
        ELSE CHOOSE i \in hits : \A j \in hits : i <= j

(***************************************************************************)
(* struct.unpack with a '<' (little-endian, unpadded) format.  A format is *)
(* a sequence of items [code, count]: 's' is one value of count bytes,     *)
(* 'I' u32, 'H' u16, 'h' i16 and 'B' u8 are count values each.             *)
(* All values are integers except a u32, see U32.                          *)
(***************************************************************************)
RECURSIVE Pow256(_)
Pow256(n) == IF n = 0 THEN 1 ELSE 256 * Pow256(n - 1)

\* the unsigned little-endian value of a byte sequence
RECURSIVE LittleEndian(_)
LittleEndian(b) ==
    IF b = <<>> THEN 0 ELSE b[1] + 256 * LittleEndian(Tail(b))

\* the two's-complement value of an unsigned n-byte value
ToSigned(v, n) == IF v >= Pow256(n) \div 2 THEN v - Pow256(n) ELSE v

ItemSize(code) ==
    CASE code = "I" -> 4
      [] code = "H" -> 2
      [] code = "h" -> 2
      [] code = "B" -> 1

\* struct.calcsize
RECURSIVE CalcSize(_)
CalcSize(fmt) ==
    IF fmt = <<>> THEN 0
    ELSE LET it == Head(fmt)
         IN  (IF it.code = "s" THEN it.count ELSE it.count * ItemSize(it.code))
             + CalcSize(Tail(fmt))

\* an unsigned 32-bit value, which exceeds the model checker's integers, as
\* its two 16-bit halves <<high, low>>: the value is high * 65536 + low
U32(b) == << LittleEndian(SubSeq(b, 3, 4)), LittleEndian(SubSeq(b, 1, 2)) >>

\* UnpackValue reading 'h' as unsigned
UnpackValueUnsigned(code, b) ==
    CASE code = "I" -> U32(SubSeq(b, 1, 4))
      [] code = "H" -> LittleEndian(SubSeq(b, 1, 2))
      [] code = "B" -> b[1]
      [] code = "h" -> LittleEndian(SubSeq(b, 1, 2))

\* the value of one item of a format at the front of b
UnpackValue(code, b) ==
    CASE code = "I" -> U32(SubSeq(b, 1, 4))
      [] code = "H" -> LittleEndian(SubSeq(b, 1, 2))
      [] code = "B" -> b[1]
      [] code = "h" -> ToSigned(LittleEndian(SubSeq(b, 1, 2)), 2)

\* the values of fmt read from b, in order (Len(b) = CalcSize(fmt))
RECURSIVE UnpackValues(_, _)
UnpackValues(fmt, b) ==
    IF fmt = <<>> THEN <<>>
    ELSE LET it == Head(fmt)
         IN  IF it.code = "s"
             THEN <<SubSeq(b, 1, it.count)>>
                  \o UnpackValues(Tail(fmt), SubSeq(b, it.count + 1, Len(b)))
             ELSE IF it.count = 0
             THEN UnpackValues(Tail(fmt), b)
             ELSE <<UnpackValue(it.code, b)>>
                  \o UnpackValues(
                        <<[code |-> it.code, count |-> it.count - 1]>> \o Tail(fmt),
                        SubSeq(b, ItemSize(it.code) + 1, Len(b)))

\* struct.unpack: raises struct.error unless the buffer has exactly calcsize bytes
StructUnpack(fmt, b) ==
    IF Len(b) # CalcSize(fmt)
    THEN [raised |-> TRUE, values |-> <<>>]
    ELSE [raised |-> FALSE, values |-> UnpackValues(fmt, b)]

(***************************************************************************)
(* _parse_packet.  The result is the returned dict (kind "packet"), the    *)
(* returned None (kind "None"), or the struct.error the call raises (kind  *)
(* "raise").  The dict's 'timestamp' (time.time()) is not part of the      *)
(* model: it is the only part of the result that is not a function of the  *)
(* slice.                                                                  *)
(***************************************************************************)
\* header_format = '<4s3IH2B6B2B'
header_format ==
    << [code |-> "s", count |-> 4], [code |-> "I", count |-> 3],
       [code |-> "H", count |-> 1], [code |-> "B", count |-> 2],
       [code |-> "B", count |-> 6], [code |-> "B", count |-> 2] >>

\* data_format = f'<{num_samples}h'
data_format(num_samples) == << [code |-> "h", count |-> num_samples] >>

ReturnNone == [kind |-> "None"]
RaiseError == [kind |-> "raise"]

\* TooShort rejecting also a slice that does not begin with the marker
TooShortOrUnmarked(packet_bytes) ==
    \/ Len(packet_bytes) < HEADER_LENGTH
    \/ PySliceTo(packet_bytes, Len(MAGIC_BYTES)) # MAGIC_BYTES

\* TooShort accepting a slice one byte short of a header
TooShortOffByOne(packet_bytes) == Len(packet_bytes) < HEADER_LENGTH - 1

\* if len(packet_data) < self.HEADER_LENGTH
TooShort(packet_bytes) == Len(packet_bytes) < HEADER_LENGTH

_parse_packet(packet_bytes) ==
    IF TooShort(packet_bytes)
    THEN ReturnNone
    ELSE
    LET hu == StructUnpack(header_format, PySliceTo(packet_bytes, HEADER_LENGTH))
        header_values == hu.values
        data_bytes == PySliceFrom(packet_bytes, HEADER_LENGTH)
        num_samples == Len(data_bytes) \div 2
        du == StructUnpack(data_format(num_samples), data_bytes)
    IN  IF hu.raised \/ du.raised
        THEN RaiseError
        ELSE [ kind |-> "packet",
               header |-> [ magic         |-> header_values[1],
                            ctp           |-> SubSeq(header_values, 2, 4),
                            length_lo     |-> header_values[5],
                            length_hi     |-> header_values[6],
                            packet_number |-> header_values[7],
                            telemetry_a   |-> header_values[8],
                            telemetry_b   |-> header_values[9],
                            telemetry_c   |-> header_values[10],
                            is_full       |-> header_values[11],
                            buffer_fill   |-> header_values[12],
                            ascan_count   |-> header_values[13],
                            reserved_b    |-> header_values[14],
                            reserved_c    |-> header_values[15] ],
               data |-> du.values,
               vector_length |-> Len(du.values),
               packet_size |-> Len(packet_bytes) ]

(***************************************************************************)
(* What the device puts on the transport.  A stream is a leading run of    *)
(* bytes that belong to no packet (garbage) followed by whole packets of   *)
(* packet_size bytes, each beginning with the marker.                      *)
(***************************************************************************)
\* len bytes equal to fill, with the marker's bytes written over positions
\* moff..moff+3 as far as they fit (moff < 1: nowhere)
Pattern(len, fill, moff) ==
    [i \in 1..len |->
        IF moff >= 1 /\ i >= moff /\ i < moff + Len(MAGIC_BYTES)
        THEN MAGIC_BYTES[i - moff + 1] ELSE fill]

PacketKinds == {"zero", "inner", "ramp"}

\* len bytes that differ from place to place, above and below 128
Ramp(len, step, first) == [i \in 1..len |-> (step * (i - 1) + first) % 256]

\* a packet of ps bytes: the marker, then a body
\*   zero:  all 0
\*   inner: all 'F', with the marker again inside the header (offset 12)
\*          and the marker's first three bytes at the very end
\*   ramp:  a different value in every field
PacketOf(ps, kind) ==
    LET n == ps - Len(MAGIC_BYTES)
    IN  MAGIC_BYTES \o
        (CASE kind = "zero"  -> Pattern(n, 0, 0)
           [] kind = "inner" -> [i \in 1..n |->
                                    IF i > n - 3 THEN MAGIC_BYTES[i - (n - 3)]
                                    ELSE Pattern(n, 70, 9)[i]]
           [] kind = "ramp"  -> Ramp(n, 37, 48))

GarbageKinds == {"zero", "tail", "false"}

\* a garbage run of len bytes
\*   zero:  all 0
\*   tail:  all 'F', ending with the marker's first three bytes
\*   false: all 0, beginning with the marker (a false packet start)
GarbageOf(len, kind) ==
    CASE kind = "zero"  -> Pattern(len, 0, 0)
      [] kind = "tail"  -> Pattern(len, 70, len - 2)
      [] kind = "false" -> Pattern(len, 0, 1)

GarbageLens(ps) == (0..MaxShortGarbage) \cup ((2 * ps)..(2 * ps + MaxOver))

\* the sequences over S of length 0..n
RECURSIVE SeqsUpTo(_, _)
SeqsUpTo(S, n) ==
    IF n = 0 THEN {<<>>}
    ELSE LET shorter == SeqsUpTo(S, n - 1)
         IN  shorter \cup {Append(q, x) : q \in {r \in shorter : Len(r) = n - 1}, x \in S}

RECURSIVE Concat(_)
Concat(ss) == IF ss = <<>> THEN <<>> ELSE Head(ss) \o Concat(Tail(ss))

\* the streams sent to a client configured for packets of ps bytes: whole
\* packets only, or a garbage run followed by at most one packet
Scenarios(ps) ==
    { [garbage |-> <<>>,
       packets |-> [i \in 1..Len(ks) |-> PacketOf(ps, ks[i])]] :
        ks \in SeqsUpTo(PacketKinds, MaxPackets) }
    \cup
    { [garbage |-> GarbageOf(m, gk),
       packets |-> [i \in 1..Len(ks) |-> PacketOf(ps, ks[i])]] :
        m \in GarbageLens(ps), gk \in GarbageKinds,
        ks \in SeqsUpTo(PacketKinds, 1) }

\* the i16 sample v as its two little-endian bytes
EncodeI16(v) == LET u == IF v < 0 THEN v + 65536 ELSE v IN <<u % 256, u \div 256>>

\* the hand-built packet of the concrete scenario: packet_number 7 and four
\* samples, every other header byte after the marker 0
FixtureSamples == <<100, -100, 32767, -32768>>
FixturePacket ==
    MAGIC_BYTES \o [i \in 1..15 |-> 0] \o <<7>> \o [i \in 1..8 |-> 0]
    \o Concat([i \in 1..Len(FixtureSamples) |-> EncodeI16(FixtureSamples[i])])

\* 50 + 50 marker-free bytes
FixtureGarbage == [i \in 1..(50 + 50) |-> (37 * i + 11) % 256]

FixtureScenarios ==
    { [garbage |-> <<>>, packets |-> <<FixturePacket>>],
      [garbage |-> FixtureGarbage, packets |-> <<>>] }

(***************************************************************************)
(* State.                                                                  *)
(***************************************************************************)
VARIABLES
    \* the client's fields (__init__)
    ascan_length, stream_buffer, packets_received, bytes_received, parse_errors,
    ws, running, callbacks, receive_thread,
    \* the receive thread: its position and its locals
    pc, packet_size, packet_data, packet,
    \* the transport: bytes sent by the device and not yet returned by recv()
    wire,
    \* history: the stream as sent, every slice extracted, every packet
    \* handed to _notify_callbacks, the buffer as the running call found it
    \* after appending its chunk, and the number of slices extracted before
    \* that call
    sent, extracted, delivered, appended, call_base,
    \* history: every callback invocation, as the callback and the number of
    \* the delivered packet it was given
    calls,
    \* the threads that connect has started, each with its position and its
    \* locals, and the connections that connect has opened, each with the
    \* bytes in flight on it
    threads, sockets,
    \* history: the number of resets made so far (set_ascan_length taking
    \* effect, clear_buffer, connect), for every buffered byte the number of
    \* resets made when recv() returned it, and for every delivered packet
    \* the oldest such number among its bytes and the number of resets made
    \* when it was delivered
    epoch, stamps, provenance,
    \* the thread that calls the client's methods: where it stands ("idle"
    \* between calls, "start" inside connect before the thread is started,
    \* "join" inside disconnect's join), and the last call that has
    \* returned, with connect's result
    caller, last_call,
    \* the list the example's callback save_waveform appends to (the packet
    \* numbers of the waveforms saved)
    saved_waveforms,
    \* the SCPI example's data thread (read_binary_data): its position, the
    \* event that stops it, the dictionary it fills, its key counter and the
    \* size it asks recv() for; and the data port's peer: the bytes it has
    \* still to send, the bytes in flight, and whether it has closed
    reader_pc, stop_event, raw_data, counter, length_bytes, peer

vars == << ascan_length, stream_buffer, packets_received, bytes_received,
           parse_errors, ws, running, callbacks, receive_thread,
           pc, packet_size, packet_data, packet,
           wire, sent, extracted, delivered, appended, call_base, calls,
           threads, sockets, epoch, stamps, provenance, caller, last_call,
           saved_waveforms,
           reader_pc, stop_event, raw_data, counter, length_bytes, peer >>

\* the data thread of the SCPI example and its data port
scpi_vars == << reader_pc, stop_event, raw_data, counter, length_bytes, peer >>

\* the calling thread, with its history
caller_vars == << caller, last_call >>

\* the threads and connections, with their history
thread_vars == << receive_thread, threads, sockets, epoch, stamps, provenance,
                  caller, last_call, saved_waveforms, scpi_vars >>

\* the connection fields, and the callback list with its history
conn_vars == << ws, running >>
cb_vars == << callbacks, calls >>

NoPacket == [kind |-> "unset"]

\* self.ws = None
NoWs == 0

\* self.receive_thread = None
NoThread == 0

\* a thread that connect has not started yet
Unstarted ==
    [ pc |-> "unstarted", ws |-> NoWs, data |-> <<>>, data_epoch |-> 0,
      packet_size |-> 0, packet_data |-> <<>>, packet_epoch |-> 0,
      rest |-> <<>>, rest_stamps |-> <<>>, next |-> "while" ]

\* __init__: the fields of a new client, nothing received or extracted yet
ClientFields(length) ==
    /\ ascan_length = length
    /\ stream_buffer = <<>>
    /\ packets_received = 0
    /\ bytes_received = 0
    /\ parse_errors = 0
    /\ calls = <<>>
    /\ caller = "idle"
    /\ last_call = "__init__"
    /\ saved_waveforms = <<>>
    /\ receive_thread = NoThread
    /\ threads = [t \in 1..MaxThreads |-> Unstarted]
    /\ sockets = <<>>
    /\ epoch = 0
    /\ stamps = <<>>
    /\ provenance = <<>>
    /\ packet_size = 0
    /\ extracted = <<>>
    /\ delivered = <<>>
    /\ appended = <<>>
    /\ call_base = 0

\* __init__: a new client, no callback registered
Constructed(length) ==
    /\ ClientFields(length)
    /\ callbacks = <<>>

\* __init__: no connection, no receive loop
Unconnected ==
    /\ ws = NoWs
    /\ running = FALSE

\* connect, when create_connection succeeds: the connection and the flag
Connected ==
    /\ ws = 1
    /\ running = TRUE

\* the SCPI example is not running: no data thread, an empty dictionary
NoReader ==
    /\ reader_pc = "unstarted"
    /\ stop_event = FALSE
    /\ raw_data = [key \in {} |-> <<>>]
    /\ counter = 0
    /\ length_bytes = 0
    /\ peer = [unsent |-> <<>>, wire |-> <<>>, closed |-> FALSE]

\* a connected client at ws.recv(), and the stream its device will send
Init ==
    /\ \/ /\ \E length \in 0..MaxAscanLength : Constructed(length)
          /\ sent \in Scenarios(HEADER_LENGTH + 2 * ascan_length)
       \/ /\ Constructed(Len(FixtureSamples))
          /\ sent \in FixtureScenarios
    /\ Connected
    /\ wire = sent.garbage \o Concat(sent.packets)
    /\ packet_data = <<>>
    /\ packet = NoPacket
    /\ pc = "recv"
    /\ NoReader

(***************************************************************************)
(* _receive_loop: data = self.ws.recv().  The transport may cut the stream *)
(* anywhere: a message is any prefix of the bytes in flight.  An empty     *)
(* message is skipped; any other is counted and passed to                  *)
(* _process_incoming_data, whose entry appends it to the buffer and        *)
(* computes the packet size from ascan_length.                             *)
(***************************************************************************)
\* packet_size = self.HEADER_LENGTH + 2 * self.ascan_length
PacketSize(length) == HEADER_LENGTH + 2 * length

\* Extended appending the chunk twice
ExtendedTwice(buf, data_block) == buf \o data_block \o data_block

\* self.stream_buffer.extend(data_block)
Extended(buf, data_block) == buf \o data_block

_receive_loop ==
    /\ pc = "recv"
    /\ running /\ ws # NoWs
    /\ \E n \in 0..Len(wire) :
        LET data == SubSeq(wire, 1, n)
        IN  /\ wire' = SubSeq(wire, n + 1, Len(wire))
            /\ IF data # <<>>
               THEN /\ bytes_received' = bytes_received + Len(data)
                    /\ stream_buffer' = Extended(stream_buffer, data)
                    /\ packet_size' = PacketSize(ascan_length)
                    /\ appended' = stream_buffer'
                    /\ call_base' = Len(extracted)
                    /\ pc' = "find"
               ELSE UNCHANGED << bytes_received, stream_buffer, packet_size,
                                 appended, call_base, pc >>
    /\ UNCHANGED << ascan_length, packets_received, parse_errors, packet_data,
                    packet, sent, extracted, delivered, conn_vars, cb_vars,
                    thread_vars >>

(***************************************************************************)
(* _process_incoming_data, top of the while loop: search for the marker;   *)
(* without one, truncate an over-long buffer and stop; with one, drop what *)
(* precedes it and stop unless a whole packet is buffered.                 *)
(***************************************************************************)
\* Overflowed with the bound at three packets
OverflowedAtThree(buf, ps) == Len(buf) > ps * 3

\* Overflowed with >= for >
OverflowedInclusive(buf, ps) == Len(buf) >= ps * 2

\* if len(self.stream_buffer) > packet_size * 2
Overflowed(buf, ps) == Len(buf) > ps * 2

\* Truncated emptying the buffer
TruncatedToNothing(buf, ps) == PySliceFrom(buf, Len(buf))

\* Truncated keeping what follows the first packet_size bytes
TruncatedFromFront(buf, ps) == PySliceFrom(buf, ps)

\* self.stream_buffer[-packet_size:]
Truncated(buf, ps) == PySliceFrom(buf, -ps)

\* Aligned dropping the marker's first byte as well
AlignedOneTooFar(buf, start_index) ==
    IF start_index > 0 THEN PySliceFrom(buf, start_index + 1) ELSE buf

\* Aligned keeping the bytes before the marker
AlignedKeepsGarbage(buf, start_index) == buf

\* if start_index > 0: self.stream_buffer[start_index:]
Aligned(buf, start_index) ==
    IF start_index > 0 THEN PySliceFrom(buf, start_index) ELSE buf

\* Incomplete with <= for <
IncompleteInclusive(buf, ps) == Len(buf) <= ps

\* if len(self.stream_buffer) < packet_size: break
Incomplete(buf, ps) == Len(buf) < ps

_process_incoming_data_find ==
    /\ pc = "find"
    /\ LET start_index == Find(stream_buffer, MAGIC_BYTES)
       IN  IF start_index < 0
           THEN /\ stream_buffer' =
                      IF Overflowed(stream_buffer, packet_size)
                      THEN Truncated(stream_buffer, packet_size)
                      ELSE stream_buffer
                /\ pc' = "recv"
           ELSE /\ stream_buffer' = Aligned(stream_buffer, start_index)
                /\ pc' = IF Incomplete(stream_buffer', packet_size)
                         THEN "recv" ELSE "extract"
    /\ UNCHANGED << ascan_length, packets_received, bytes_received, parse_errors,
                    packet_size, packet_data, packet, wire, sent,
                    extracted, delivered, appended, call_base,
                    conn_vars, cb_vars, thread_vars >>

(***************************************************************************)
(* _process_incoming_data: extract the packet at the front, parse it,      *)
(* count it and notify the callbacks; a raised exception is counted as a   *)
(* parse error.                                                            *)
(***************************************************************************)
\* the callbacks a client may register: one that returns, one that raises
Callbacks == {"plot", "faulty"}
Raises(callback) == callback = "faulty"

\* _notify_callbacks going through the list from its end
_notify_callbacks_reversed(cbs, packet_no) ==
    [i \in 1..Len(cbs) |-> [callback |-> cbs[Len(cbs) + 1 - i], packet |-> packet_no]]

\* _notify_callbacks letting a callback's exception end the loop
RECURSIVE _notify_callbacks_unguarded(_, _)
_notify_callbacks_unguarded(cbs, packet_no) ==
    IF cbs = <<>> THEN <<>>
    ELSE << [callback |-> Head(cbs), packet |-> packet_no] >>
         \o (IF Raises(Head(cbs)) THEN <<>>
             ELSE _notify_callbacks_unguarded(Tail(cbs), packet_no))

\* for callback in self.callbacks: try: callback(packet) except Exception: print
\* -- the invocations made for the packet, in order, a raising callback's too
_notify_callbacks(cbs, packet_no) ==
    [i \in 1..Len(cbs) |-> [callback |-> cbs[i], packet |-> packet_no]]

\* Slice one byte long
SliceOneMore(buf, ps) == PySliceTo(buf, ps + 1)

\* Slice one byte short
SliceOneShort(buf, ps) == PySliceTo(buf, ps - 1)

\* bytes(self.stream_buffer[:packet_size])
Slice(buf, ps) == PySliceTo(buf, ps)

_process_incoming_data_extract ==
    /\ pc = "extract"
    /\ Len(extracted) < MaxExtracted
    /\ packet_data' = Slice(stream_buffer, packet_size)
    /\ extracted' = Append(extracted, packet_data')
    /\ LET result == _parse_packet(packet_data')
       IN  /\ packet' = IF result.kind = "raise" THEN packet ELSE result
           /\ packets_received' =
                IF result.kind = "packet" THEN packets_received + 1
                ELSE packets_received
           /\ delivered' =
                IF result.kind = "packet" THEN Append(delivered, result)
                ELSE delivered
           /\ calls' =
                IF result.kind = "packet"
                THEN calls \o _notify_callbacks(callbacks, Len(delivered'))
                ELSE calls
           /\ parse_errors' =
                IF result.kind = "raise" THEN parse_errors + 1 ELSE parse_errors
    /\ pc' = "remove"
    /\ UNCHANGED << ascan_length, stream_buffer, bytes_received, packet_size,
                    wire, sent, appended, call_base, conn_vars, callbacks,
                    thread_vars >>

(***************************************************************************)
(* _process_incoming_data: remove the processed packet and loop.           *)
(***************************************************************************)
\* Remaining removing one byte too many
RemainingOneMore(buf, ps) == PySliceFrom(buf, ps + 1)

\* self.stream_buffer[packet_size:]
Remaining(buf, ps) == PySliceFrom(buf, ps)

_process_incoming_data_remove ==
    /\ pc = "remove"
    /\ stream_buffer' = Remaining(stream_buffer, packet_size)
    /\ pc' = "find"
    /\ UNCHANGED << ascan_length, packets_received, bytes_received, parse_errors,
                    packet_size, packet_data, packet, wire, sent,
                    extracted, delivered, appended, call_base,
                    conn_vars, cb_vars, thread_vars >>

(***************************************************************************)
(* get_statistics: the counters and the buffer size.  ('is_connected' is   *)
(* TRUE throughout: the receive loop runs on a connected client.)          *)
(***************************************************************************)
get_statistics ==
    [ packets_received |-> packets_received,
      bytes_received   |-> bytes_received,
      parse_errors     |-> parse_errors,
      buffer_size      |-> Len(stream_buffer) ]

Next ==
    \/ _receive_loop
    \/ _process_incoming_data_find
    \/ _process_incoming_data_extract
    \/ _process_incoming_data_remove

Spec == Init /\ [][Next]_vars

(***************************************************************************)
(* The receive path while the caller registers callbacks: on_data appends  *)
(* to self.callbacks at any moment, from the caller's thread.  The list is *)
(* only appended to, so a registration that falls inside a notification   *)
(* has the effect of one made just before it or just after it.             *)
(***************************************************************************)
on_data(callback) ==
    /\ Len(callbacks) < MaxCallbacks
    /\ callbacks' = Append(callbacks, callback)
    /\ UNCHANGED << ascan_length, stream_buffer, packets_received, bytes_received,
                    parse_errors, pc, packet_size, packet_data, packet, wire,
                    sent, extracted, delivered, appended, call_base,
                    conn_vars, calls, thread_vars >>

\* the streams of up to MaxPackets whole packets
PacketStreams(ps) ==
    { [garbage |-> <<>>, packets |-> [i \in 1..k |-> PacketOf(ps, "ramp")]] :
        k \in 0..MaxPackets }

InitCallbacks ==
    /\ \E length \in 0..MaxAscanLength : Constructed(length)
    /\ sent \in PacketStreams(PacketSize(ascan_length))
    /\ Connected
    /\ wire = Concat(sent.packets)
    /\ packet_data = <<>>
    /\ packet = NoPacket
    /\ pc = "recv"
    /\ NoReader

NextCallbacks ==
    \/ Next
    \/ \E callback \in Callbacks : on_data(callback)

SpecCallbacks == InitCallbacks /\ [][NextCallbacks]_vars

(***************************************************************************)
(* The receive path of a client constructed with a negative ascan_length   *)
(* (__init__ stores the argument unchecked), so that packet_size is below  *)
(* HEADER_LENGTH, zero or negative.  The device sends runs of bytes that   *)
(* begin with the marker.                                                  *)
(***************************************************************************)
\* the lengths with packet_size in -2*MaxBelow .. 2*MaxShort
ShortLengths ==
    (-(HEADER_LENGTH \div 2) - MaxBelow)..(-(HEADER_LENGTH \div 2) + MaxShort)

\* the marker alone or followed by one byte
ShortRuns == { MAGIC_BYTES \o Ramp(k, 37, 48) : k \in {0, 1} }

\* the marker followed by HEADER_LENGTH - 1 or HEADER_LENGTH bytes
LongRuns ==
    { MAGIC_BYTES \o Ramp(k, 37, 48) : k \in {HEADER_LENGTH - 1, HEADER_LENGTH} }

\* up to MaxPackets short runs, or one long run
ShortScenarios ==
    { [garbage |-> <<>>, packets |-> runs] : runs \in SeqsUpTo(ShortRuns, MaxPackets) }
    \cup { [garbage |-> <<>>, packets |-> << run >>] : run \in LongRuns }

InitAnyLength ==
    /\ \E length \in ShortLengths : Constructed(length)
    /\ sent \in ShortScenarios
    /\ Connected
    /\ wire = Concat(sent.packets)
    /\ packet_data = <<>>
    /\ packet = NoPacket
    /\ pc = "recv"
    /\ NoReader

SpecAnyLength == InitAnyLength /\ [][Next]_vars

(***************************************************************************)
(* The client used from two sides at once: the caller's thread calls       *)
(* connect, disconnect, set_ascan_length and clear_buffer, and every       *)
(* thread started by connect runs _receive_loop.  Nothing in the class     *)
(* takes a lock, so a receive thread is followed statement by statement,   *)
(* and an assignment self.stream_buffer = self.stream_buffer[...] in two   *)
(* steps: the new bytearray is built from the buffer, then bound to the    *)
(* attribute.  A connection delivers its stream header first, then the     *)
(* rest, or all at once.                                                   *)
(***************************************************************************)
\* the threads that have been started, and those still running
Started == { t \in 1..MaxThreads : threads[t].pc # "unstarted" }
Alive == { t \in Started : threads[t].pc # "exited" }

\* return self.ws is not None and self.running
is_connected == ws # NoWs /\ running

\* the other fields of this specification stay as constructed
rest_vars == << callbacks, pc, packet_size, packet_data, packet, wire,
                sent, appended, call_base >>

\* max_waveforms = 20
max_waveforms == 20

\* save_waveform(packet), the callback of websocket_example_save_data:
\* if len(saved_waveforms) < max_waveforms: saved_waveforms.append({...})
save_waveform(saved, pkt) ==
    IF Len(saved) < max_waveforms
    THEN Append(saved, pkt.header.packet_number)
    ELSE saved

\* the callbacks' effect on the example's list, in the order of the calls
RECURSIVE Saved(_, _, _)
Saved(cbs, saved, pkt) ==
    IF cbs = <<>> THEN saved
    ELSE Saved(Tail(cbs),
               IF Head(cbs) = "save_waveform" THEN save_waveform(saved, pkt)
               ELSE saved,
               pkt)

\* connect, create_connection succeeding: a new connection, the flag, the
\* buffer cleared
connect ==
    /\ caller = "idle"
    /\ Cardinality(Started) < MaxThreads
    /\ epoch < MaxResets
    /\ caller' = "start"
    /\ sockets' = Append(sockets, [wire |-> Concat(sent.packets), closed |-> FALSE])
    /\ ws' = Len(sockets) + 1
    /\ running' = TRUE
    /\ stream_buffer' = <<>>
    /\ stamps' = <<>>
    /\ epoch' = epoch + 1
    /\ UNCHANGED << ascan_length, packets_received, bytes_received, parse_errors,
                    receive_thread, threads, extracted, delivered, provenance,
                    calls, last_call, rest_vars,
                    saved_waveforms, scpi_vars >>

\* connect, after the buffer is cleared: the new thread is created and
\* started, and connect returns True
connect_start ==
    /\ caller = "start"
    /\ caller' = "idle"
    /\ last_call' = "connect:True"
    /\ receive_thread' = Cardinality(Started) + 1
    /\ threads' = [threads EXCEPT ![Cardinality(Started) + 1].pc = "while"]
    /\ UNCHANGED << ascan_length, stream_buffer, packets_received, bytes_received,
                    parse_errors, conn_vars, sockets, epoch, stamps, extracted,
                    delivered, provenance, calls, rest_vars,
                    saved_waveforms, scpi_vars >>

\* connect, create_connection raising (refused, timed out, anything else):
\* the except clauses print and return False
connect_fails ==
    /\ caller = "idle"
    /\ last_call' = "connect:False"
    /\ UNCHANGED << ascan_length, stream_buffer, packets_received, bytes_received,
                    parse_errors, conn_vars, receive_thread, threads, sockets,
                    epoch, stamps, extracted, delivered, provenance, calls,
                    caller, rest_vars,
                    saved_waveforms, scpi_vars >>

\* disconnect, up to the join: the flag, ws.close(), self.ws = None; it
\* returns at once when there is no receive thread alive to wait for
disconnect ==
    /\ caller = "idle"
    /\ running' = FALSE
    /\ IF ws # NoWs
       THEN /\ sockets' = [sockets EXCEPT ![ws].closed = TRUE]
            /\ ws' = NoWs
       ELSE UNCHANGED << sockets, ws >>
    /\ IF receive_thread # NoThread /\ receive_thread \in Alive
       THEN /\ caller' = "join"
            /\ UNCHANGED last_call
       ELSE /\ caller' = "idle"
            /\ last_call' = "disconnect"
    /\ UNCHANGED << ascan_length, stream_buffer, packets_received, bytes_received,
                    parse_errors, receive_thread, threads, epoch, stamps,
                    extracted, delivered, provenance, calls, rest_vars,
                    saved_waveforms, scpi_vars >>

\* self.receive_thread.join(timeout=2) returning, because the thread has
\* ended or because two seconds have passed (a callback still running, a
\* recv() that has not returned yet); disconnect prints and returns
disconnect_join ==
    /\ caller = "join"
    /\ caller' = "idle"
    /\ last_call' = "disconnect"
    /\ UNCHANGED << ascan_length, stream_buffer, packets_received, bytes_received,
                    parse_errors, conn_vars, receive_thread, threads, sockets,
                    epoch, stamps, extracted, delivered, provenance, calls,
                    rest_vars,
                    saved_waveforms, scpi_vars >>

\* set_ascan_length accepting the length 0
set_ascan_length_nonnegative(length) ==
    /\ caller = "idle"
    /\ last_call' = "set_ascan_length"
    /\ IF length >= 0 /\ length # ascan_length
       THEN /\ epoch < MaxResets
            /\ ascan_length' = length
            /\ stream_buffer' = <<>>
            /\ stamps' = <<>>
            /\ epoch' = epoch + 1
       ELSE UNCHANGED << ascan_length, stream_buffer, stamps, epoch >>
    /\ UNCHANGED << packets_received, bytes_received, parse_errors, conn_vars,
                    receive_thread, threads, sockets,
                    extracted, delivered, provenance, calls, caller, rest_vars,
                    saved_waveforms, scpi_vars >>

\* set_ascan_length(length)
set_ascan_length(length) ==
    /\ caller = "idle"
    /\ last_call' = "set_ascan_length"
    /\ IF length > 0 /\ length # ascan_length
       THEN /\ epoch < MaxResets
            /\ ascan_length' = length
            /\ stream_buffer' = <<>>
            /\ stamps' = <<>>
            /\ epoch' = epoch + 1
       ELSE UNCHANGED << ascan_length, stream_buffer, stamps, epoch >>
    /\ UNCHANGED << packets_received, bytes_received, parse_errors, conn_vars,
                    receive_thread, threads, sockets,
                    extracted, delivered, provenance, calls, caller, rest_vars,
                    saved_waveforms, scpi_vars >>

\* clear_buffer
clear_buffer ==
    /\ caller = "idle"
    /\ epoch < MaxResets
    /\ last_call' = "clear_buffer"
    /\ stream_buffer' = <<>>
    /\ stamps' = <<>>
    /\ epoch' = epoch + 1
    /\ UNCHANGED << ascan_length, packets_received, bytes_received, parse_errors,
                    conn_vars, receive_thread, threads, sockets,
                    extracted, delivered, provenance, calls, caller, rest_vars,
                    saved_waveforms, scpi_vars >>

\* while self.running and self.ws: ... self.ws.recv()
thread_while(t) ==
    /\ threads[t].pc = "while"
    /\ threads' = [threads EXCEPT ![t] =
                      IF running /\ ws # NoWs
                      THEN [@ EXCEPT !.pc = "recv", !.ws = ws]
                      ELSE [Unstarted EXCEPT !.pc = "exited"]]
    /\ UNCHANGED << ascan_length, stream_buffer, packets_received, bytes_received,
                    parse_errors, conn_vars, receive_thread, sockets, epoch,
                    stamps, extracted, delivered, provenance, calls,
                    caller_vars, rest_vars,
                    saved_waveforms, scpi_vars >>

\* the lengths of the message recv() may return from the bytes in flight
MessageLengths(in_flight) ==
    { n \in {HEADER_LENGTH, Len(in_flight)} : 1 <= n /\ n <= Len(in_flight) }

\* data = self.ws.recv() returning a message; self.bytes_received += len(data)
thread_recv(t) ==
    /\ threads[t].pc = "recv"
    /\ ~sockets[threads[t].ws].closed
    /\ \E n \in MessageLengths(sockets[threads[t].ws].wire) :
        LET in_flight == sockets[threads[t].ws].wire
        IN  /\ sockets' = [sockets EXCEPT ![threads[t].ws].wire =
                              SubSeq(in_flight, n + 1, Len(in_flight))]
            /\ threads' = [threads EXCEPT ![t].pc = "extend",
                                          ![t].data = SubSeq(in_flight, 1, n),
                                          ![t].data_epoch = epoch]
            /\ bytes_received' = bytes_received + n
    /\ UNCHANGED << ascan_length, stream_buffer, packets_received, parse_errors,
                    conn_vars, receive_thread, epoch, stamps,
                    extracted, delivered, provenance, calls,
                    caller_vars, rest_vars,
                    saved_waveforms, scpi_vars >>

\* recv() raising WebSocketConnectionClosedException (the server closed the
\* connection, or disconnect did): self.running = False; break
thread_closed(t) ==
    /\ threads[t].pc = "recv"
    /\ running' = FALSE
    /\ threads' = [threads EXCEPT ![t] = [Unstarted EXCEPT !.pc = "exited"]]
    /\ UNCHANGED << ascan_length, stream_buffer, packets_received, bytes_received,
                    parse_errors, ws, receive_thread, sockets, epoch, stamps,
                    extracted, delivered, provenance, calls,
                    caller_vars, rest_vars,
                    saved_waveforms, scpi_vars >>

\* recv() raising any other exception (the 5 s timeout of the connection
\* passing without a message, a socket error):
\* if self.running: self.parse_errors += 1; break
thread_error(t) ==
    /\ threads[t].pc = "recv"
    /\ parse_errors' = IF running THEN parse_errors + 1 ELSE parse_errors
    /\ threads' = [threads EXCEPT ![t] = [Unstarted EXCEPT !.pc = "exited"]]
    /\ UNCHANGED << ascan_length, stream_buffer, packets_received, bytes_received,
                    conn_vars, receive_thread, sockets, epoch, stamps,
                    extracted, delivered, provenance, calls,
                    caller_vars, rest_vars,
                    saved_waveforms, scpi_vars >>

\* _process_incoming_data: self.stream_buffer.extend(data_block)
thread_extend(t) ==
    /\ threads[t].pc = "extend"
    /\ stream_buffer' = Extended(stream_buffer, threads[t].data)
    /\ stamps' = stamps \o [i \in 1..Len(threads[t].data) |-> threads[t].data_epoch]
    /\ threads' = [threads EXCEPT ![t].pc = "size", ![t].data = <<>>,
                                  ![t].data_epoch = 0]
    /\ UNCHANGED << ascan_length, packets_received, bytes_received, parse_errors,
                    conn_vars, receive_thread, sockets, epoch,
                    extracted, delivered, provenance, calls,
                    caller_vars, rest_vars,
                    saved_waveforms, scpi_vars >>

\* packet_size = self.HEADER_LENGTH + 2 * self.ascan_length
thread_size(t) ==
    /\ threads[t].pc = "size"
    /\ threads' = [threads EXCEPT ![t].pc = "find",
                                  ![t].packet_size = PacketSize(ascan_length)]
    /\ UNCHANGED << ascan_length, stream_buffer, packets_received, bytes_received,
                    parse_errors, conn_vars, receive_thread, sockets, epoch,
                    stamps, extracted, delivered, provenance, calls,
                    caller_vars, rest_vars,
                    saved_waveforms, scpi_vars >>

\* the search for the marker; without one the over-long buffer's tail is
\* built and the call ends, with one what follows the garbage is built
thread_find(t) ==
    /\ threads[t].pc = "find"
    /\ LET start_index == Find(stream_buffer, MAGIC_BYTES)
           ps == threads[t].packet_size
       IN  threads' = [threads EXCEPT ![t] =
             IF start_index < 0
             THEN IF Overflowed(stream_buffer, ps)
                  THEN [@ EXCEPT !.pc = "store", !.next = "while",
                                 !.rest = Truncated(stream_buffer, ps),
                                 !.rest_stamps = Truncated(stamps, ps)]
                  ELSE [@ EXCEPT !.pc = "while", !.packet_size = 0]
             ELSE IF start_index > 0
                  THEN [@ EXCEPT !.pc = "store", !.next = "check",
                                 !.rest = Aligned(stream_buffer, start_index),
                                 !.rest_stamps = Aligned(stamps, start_index)]
                  ELSE [@ EXCEPT !.pc = "check"]]
    /\ UNCHANGED << ascan_length, stream_buffer, packets_received, bytes_received,
                    parse_errors, conn_vars, receive_thread, sockets, epoch,
                    stamps, extracted, delivered, provenance, calls,
                    caller_vars, rest_vars,
                    saved_waveforms, scpi_vars >>

\* self.stream_buffer = <the bytearray built>
thread_store(t) ==
    /\ threads[t].pc = "store"
    /\ stream_buffer' = threads[t].rest
    /\ stamps' = threads[t].rest_stamps
    /\ threads' = [threads EXCEPT ![t].pc = threads[t].next, ![t].next = "while",
                                  ![t].rest = <<>>, ![t].rest_stamps = <<>>,
                                  ![t].packet_size =
                                      IF threads[t].next = "while" THEN 0 ELSE @]
    /\ UNCHANGED << ascan_length, packets_received, bytes_received, parse_errors,
                    conn_vars, receive_thread, sockets, epoch,
                    extracted, delivered, provenance, calls,
                    caller_vars, rest_vars,
                    saved_waveforms, scpi_vars >>

\* if len(self.stream_buffer) < packet_size: break
thread_check(t) ==
    /\ threads[t].pc = "check"
    /\ threads' = [threads EXCEPT ![t] =
                      IF Incomplete(stream_buffer, threads[t].packet_size)
                      THEN [@ EXCEPT !.pc = "while", !.packet_size = 0]
                      ELSE [@ EXCEPT !.pc = "slice"]]
    /\ UNCHANGED << ascan_length, stream_buffer, packets_received, bytes_received,
                    parse_errors, conn_vars, receive_thread, sockets, epoch,
                    stamps, extracted, delivered, provenance, calls,
                    caller_vars, rest_vars,
                    saved_waveforms, scpi_vars >>

\* the oldest of the stamps (the current number of resets for no bytes)
RECURSIVE Oldest(_, _)
Oldest(ss, newest) ==
    IF ss = <<>> THEN newest ELSE Min(Head(ss), Oldest(Tail(ss), newest))

\* packet_data = bytes(self.stream_buffer[:packet_size])
thread_slice(t) ==
    /\ threads[t].pc = "slice"
    /\ Len(extracted) < MaxExtracted
    /\ threads' = [threads EXCEPT
                      ![t].pc = "parse",
                      ![t].packet_data = Slice(stream_buffer, threads[t].packet_size),
                      ![t].packet_epoch =
                          Oldest(Slice(stamps, threads[t].packet_size), epoch)]
    /\ extracted' = Append(extracted, Slice(stream_buffer, threads[t].packet_size))
    /\ UNCHANGED << ascan_length, stream_buffer, packets_received, bytes_received,
                    parse_errors, conn_vars, receive_thread, sockets, epoch,
                    stamps, delivered, provenance, calls,
                    caller_vars, rest_vars,
                    saved_waveforms, scpi_vars >>

\* packet = self._parse_packet(packet_data); a packet is counted and handed
\* to _notify_callbacks, a raised error is counted
thread_parse(t) ==
    /\ threads[t].pc = "parse"
    /\ LET result == _parse_packet(threads[t].packet_data)
       IN  /\ packets_received' =
                IF result.kind = "packet" THEN packets_received + 1
                ELSE packets_received
           /\ delivered' =
                IF result.kind = "packet" THEN Append(delivered, result)
                ELSE delivered
           /\ provenance' =
                IF result.kind = "packet"
                THEN Append(provenance, [received |-> threads[t].packet_epoch,
                                         delivered |-> epoch])
                ELSE provenance
           /\ calls' =
                IF result.kind = "packet"
                THEN calls \o _notify_callbacks(callbacks, Len(delivered) + 1)
                ELSE calls
           /\ saved_waveforms' =
                IF result.kind = "packet"
                THEN Saved(callbacks, saved_waveforms, result)
                ELSE saved_waveforms
           /\ parse_errors' =
                IF result.kind = "raise" THEN parse_errors + 1 ELSE parse_errors
    /\ threads' = [threads EXCEPT ![t].pc = "remove", ![t].packet_data = <<>>,
                                  ![t].packet_epoch = 0]
    /\ UNCHANGED << ascan_length, stream_buffer, bytes_received, conn_vars,
                    receive_thread, sockets, epoch, stamps, extracted,
                    caller_vars, rest_vars, scpi_vars >>

\* self.stream_buffer[packet_size:], built
thread_remove(t) ==
    /\ threads[t].pc = "remove"
    /\ threads' = [threads EXCEPT
                      ![t].pc = "store", ![t].next = "find",
                      ![t].rest = Remaining(stream_buffer, threads[t].packet_size),
                      ![t].rest_stamps = Remaining(stamps, threads[t].packet_size)]
    /\ UNCHANGED << ascan_length, stream_buffer, packets_received, bytes_received,
                    parse_errors, conn_vars, receive_thread, sockets, epoch,
                    stamps, extracted, delivered, provenance, calls,
                    caller_vars, rest_vars,
                    saved_waveforms, scpi_vars >>

\* the lengths the caller passes to set_ascan_length
SetLengths == 0..(MaxAscanLength + 1)

\* a new client configured for one sample per packet, one callback
\* registered with on_data; every connection it opens carries one packet
InitThreads ==
    /\ ClientFields(1)
    /\ callbacks = << "plot" >>
    /\ Unconnected
    /\ sent = [garbage |-> <<>>, packets |-> << PacketOf(PacketSize(1), "ramp") >>]
    /\ wire = <<>>
    /\ packet_data = <<>>
    /\ packet = NoPacket
    /\ pc = "threads"
    /\ NoReader

NextThreads ==
    \/ connect
    \/ connect_start
    \/ connect_fails
    \/ disconnect
    \/ disconnect_join
    \/ \E length \in SetLengths : set_ascan_length(length)
    \/ clear_buffer
    \/ \E t \in 1..MaxThreads :
        \/ thread_while(t)
        \/ thread_recv(t)
        \/ thread_closed(t)
        \/ thread_error(t)
        \/ thread_extend(t)
        \/ thread_size(t)
        \/ thread_find(t)
        \/ thread_store(t)
        \/ thread_check(t)
        \/ thread_slice(t)
        \/ thread_parse(t)
        \/ thread_remove(t)

SpecThreads == InitThreads /\ [][NextThreads]_vars

(***************************************************************************)
(* The decoder on its own: _parse_packet applied to one slice of any       *)
(* length, by a caller other than the receive loop.  packet records the    *)
(* outcome of the call.                                                    *)
(***************************************************************************)
\* slices of every length 0..HEADER_LENGTH+MaxPayload, and the fixture
ParseInputs ==
    { Ramp(len, r[1], r[2]) :
        len \in 0..(HEADER_LENGTH + MaxPayload),
        r \in {<<1, 0>>, <<37, 48>>, <<251, 255>>} }
    \cup { MAGIC_BYTES \o Ramp(len, 37, 48) : len \in 0..(HEADER_LENGTH + MaxPayload - 4) }
    \cup { FixturePacket }

\* the client the decoder is called on: a new, unconnected one, or a
\* connected one with a callback registered that has received the first
\* four bytes of a packet and waits for the rest
InitParse ==
    /\ \/ /\ Constructed(0)
          /\ Unconnected
          /\ sent = [garbage |-> <<>>, packets |-> <<>>]
       \/ /\ ascan_length = 1
          /\ stream_buffer = MAGIC_BYTES
          /\ bytes_received = Len(MAGIC_BYTES)
          /\ packets_received = 0
          /\ parse_errors = 0
          /\ callbacks = << "plot" >>
          /\ calls = <<>>
          /\ caller = "idle"
          /\ last_call = "connect:True"
          /\ saved_waveforms = <<>>
          /\ receive_thread = NoThread
          /\ threads = [t \in 1..MaxThreads |-> Unstarted]
          /\ sockets = <<>>
          /\ epoch = 0
          /\ stamps = <<>>
          /\ provenance = <<>>
          /\ Connected
          /\ packet_size = PacketSize(1)
          /\ sent = [garbage |-> <<>>, packets |-> << PacketOf(PacketSize(1), "ramp") >>]
          /\ extracted = <<>>
          /\ delivered = <<>>
          /\ appended = MAGIC_BYTES
          /\ call_base = 0
    /\ wire = <<>>
    /\ packet_data \in ParseInputs
    /\ packet = NoPacket
    /\ pc = "parse"
    /\ NoReader

\* parse_call counting a raised error, as the extraction loop does
parse_call_counting ==
    /\ pc = "parse"
    /\ packet' = _parse_packet(packet_data)
    /\ parse_errors' = IF packet'.kind = "raise" THEN parse_errors + 1
                       ELSE parse_errors
    /\ pc' = "parsed"
    /\ UNCHANGED << ascan_length, stream_buffer, packets_received, bytes_received,
                    packet_size, packet_data, wire, sent,
                    extracted, delivered, appended, call_base,
                    conn_vars, cb_vars, thread_vars >>

parse_call ==
    /\ pc = "parse"
    /\ packet' = _parse_packet(packet_data)
    /\ pc' = "parsed"
    /\ UNCHANGED << ascan_length, stream_buffer, packets_received, bytes_received,
                    parse_errors, packet_size, packet_data, wire, sent,
                    extracted, delivered, appended, call_base,
                    conn_vars, cb_vars, thread_vars >>

NextParse == parse_call

SpecParse == InitParse /\ [][NextParse]_vars

(***************************************************************************)
(* Vocabulary of the properties, stated on bytes and not through the       *)
(* operators of the model.                                                 *)
(***************************************************************************)
\* the packet size the client is configured for: 28 + 2 * ascan_length
ConfiguredSize == 28 + 2 * ascan_length

\* s holds the marker 'FtH1' at 0-based offset k
MarkerAt(s, k) ==
    /\ k + 4 <= Len(s)
    /\ s[k + 1] = 70 /\ s[k + 2] = 116 /\ s[k + 3] = 72 /\ s[k + 4] = 49

\* s holds no marker anywhere
NoMarker(s) == \A k \in 0..(Len(s) - 4) : ~MarkerAt(s, k)

\* the 0-based offset of the first marker of s (s holds one)
FirstMarker(s) == CHOOSE k \in 0..(Len(s) - 4) :
                    MarkerAt(s, k) /\ \A j \in 0..(k - 1) : ~MarkerAt(s, j)

\* s without its first n bytes / the first n bytes of s / the last n bytes of s
Drop(s, n) == SubSeq(s, n + 1, Len(s))
Take(s, n) == SubSeq(s, 1, n)
LastBytes(s, n) == SubSeq(s, Len(s) - n + 1, Len(s))

\* p is a prefix of s
IsPrefix(p, s) == Len(p) <= Len(s) /\ Take(s, Len(p)) = p

\* the running call of _process_incoming_data has returned (or none was made)
Returned == pc = "recv"

\* every byte sent has been received and processed
Drained == pc = "recv" /\ wire = <<>>

(***************************************************************************)
(* C1: from an empty buffer, one valid packet split into non-empty chunks  *)
(* in any way yields exactly one slice, equal to the packet, and leaves    *)
(* the buffer empty.                                                       *)
(***************************************************************************)
C1_OnePacketAnyChunking ==
    (sent.garbage = <<>> /\ Len(sent.packets) = 1) =>
        /\ Len(extracted) <= 1
        /\ \A i \in 1..Len(extracted) : extracted[i] = sent.packets[1]
        /\ Drained => /\ extracted = << sent.packets[1] >>
                      /\ stream_buffer = <<>>

\* one packet, received in more than one chunk, has been extracted
C1_Witness ==
    /\ sent.garbage = <<>> /\ Len(sent.packets) = 1
    /\ Drained
    /\ extracted = sent.packets
    /\ stream_buffer = <<>>
    /\ bytes_received = ConfiguredSize
    /\ packets_received = 1

(***************************************************************************)
(* C2: from an empty buffer, K valid packets (some holding the marker      *)
(* again in their header or payload), concatenated and chunked in any way, *)
(* yield exactly K slices, the i-th equal to the i-th packet, and the      *)
(* packets are delivered to the callbacks in the order received.           *)
(***************************************************************************)
C2_PacketsInOrder ==
    (sent.garbage = <<>>) =>
        /\ IsPrefix(extracted, sent.packets)
        /\ Len(delivered) = Len(extracted)
        /\ \A i \in 1..Len(delivered) :
              /\ delivered[i].header.magic = Take(sent.packets[i], 4)
              /\ delivered[i].header.packet_number = sent.packets[i][20]
              /\ delivered[i].header.ascan_count = sent.packets[i][26]
              /\ delivered[i].header.reserved_c = sent.packets[i][28]
              /\ delivered[i].packet_size = Len(sent.packets[i])
        /\ Drained => /\ extracted = sent.packets
                      /\ packets_received = Len(sent.packets)
                      /\ stream_buffer = <<>>

\* two different packets, the first holding the marker a second time, have
\* been extracted and delivered
C2_Witness ==
    /\ sent.garbage = <<>> /\ Len(sent.packets) >= 2
    /\ sent.packets[1] # sent.packets[2]
    /\ \E k \in 1..(Len(sent.packets[1]) - 4) : MarkerAt(sent.packets[1], k)
    /\ Drained
    /\ extracted = sent.packets
    /\ Len(delivered) = Len(sent.packets)
    /\ delivered[1] # delivered[2]

(***************************************************************************)
(* C3: from an empty buffer, M >= 1 marker-free bytes followed by one      *)
(* valid packet, chunked in any way, yield exactly one slice, equal to the *)
(* packet, and leave the buffer empty; also when M > 2 * packet_size and   *)
(* the buffer is truncated on the way.                                     *)
(***************************************************************************)
C3_GarbageThenPacket ==
    (Len(sent.garbage) >= 1 /\ NoMarker(sent.garbage) /\ Len(sent.packets) = 1) =>
        /\ Len(extracted) <= 1
        /\ \A i \in 1..Len(extracted) : extracted[i] = sent.packets[1]
        /\ Drained => /\ Len(extracted) = 1
                      /\ stream_buffer = <<>>

\* more than 2 * packet_size garbage bytes, a truncation (the last call
\* found exactly packet_size garbage bytes retained), and then the packet
C3_Witness ==
    /\ Len(sent.garbage) > 2 * ConfiguredSize /\ NoMarker(sent.garbage)
    /\ Len(sent.packets) = 1
    /\ Drained
    /\ extracted = sent.packets
    /\ stream_buffer = <<>>
    /\ call_base = 0
    /\ Len(appended) = 2 * ConfiguredSize
    /\ NoMarker(Take(appended, ConfiguredSize))

(***************************************************************************)
(* C4: when the buffer, after a chunk is appended, holds more than         *)
(* 2 * packet_size bytes and no marker, the call returns with exactly the  *)
(* trailing packet_size bytes in the buffer and has extracted nothing;     *)
(* with packet_size 36, marker-free chunks of 50 and 50 bytes leave at     *)
(* most 36 bytes and no packet.                                            *)
(***************************************************************************)
C4_OverflowKeepsTail ==
    (Returned /\ Len(appended) > 2 * ConfiguredSize /\ NoMarker(appended)) =>
        /\ stream_buffer = LastBytes(appended, ConfiguredSize)
        /\ Len(stream_buffer) <= ConfiguredSize
        /\ Len(extracted) = call_base
        /\ (sent.garbage = FixtureGarbage /\ Len(appended) = 50 + 50) =>
              /\ Len(stream_buffer) <= 36
              /\ extracted = <<>>
              /\ packets_received = 0

\* the 100 marker-free bytes, all in the buffer when the last call began,
\* have been cut to 36
C4_Witness ==
    /\ sent.garbage = FixtureGarbage /\ NoMarker(FixtureGarbage)
    /\ ConfiguredSize = 36
    /\ Drained
    /\ Len(appended) = 50 + 50
    /\ stream_buffer = LastBytes(FixtureGarbage, 36)
    /\ extracted = <<>>

(***************************************************************************)
(* C5: after every return of _process_incoming_data the buffer is empty,   *)
(* or begins with the marker and is shorter than packet_size, or holds no  *)
(* marker and at most 2 * packet_size bytes; it never holds more than      *)
(* 2 * packet_size bytes.                                                  *)
(***************************************************************************)
C5_BufferShape ==
    Returned =>
        /\ \/ stream_buffer = <<>>
           \/ MarkerAt(stream_buffer, 0) /\ Len(stream_buffer) < ConfiguredSize
           \/ NoMarker(stream_buffer) /\ Len(stream_buffer) <= 2 * ConfiguredSize
        /\ Len(stream_buffer) <= 2 * ConfiguredSize

\* a call has returned leaving exactly 2 * packet_size marker-free bytes
C5_Witness ==
    /\ Returned
    /\ bytes_received > 0
    /\ NoMarker(stream_buffer)
    /\ Len(stream_buffer) = 2 * ConfiguredSize

(***************************************************************************)
(* C6: every slice extracted is exactly packet_size bytes long, begins     *)
(* with the marker, is the front of the buffer once the bytes before the   *)
(* first marker are dropped, and exactly those packet_size bytes leave the *)
(* buffer before the marker is searched for again.                         *)
(***************************************************************************)
C6_SliceExact ==
    [][ /\ (pc = "find" /\ pc' = "extract") =>
              /\ stream_buffer' = Drop(stream_buffer, FirstMarker(stream_buffer))
              /\ Len(stream_buffer') >= ConfiguredSize
        /\ (pc = "extract") =>
              /\ MarkerAt(stream_buffer, 0)
              /\ packet_data' = Take(stream_buffer, ConfiguredSize)
              /\ Len(packet_data') = ConfiguredSize
              /\ extracted' = Append(extracted, packet_data')
              /\ stream_buffer' = stream_buffer
              /\ pc' = "remove"
        /\ (pc = "remove") =>
              /\ stream_buffer' = Drop(stream_buffer, ConfiguredSize)
              /\ Len(stream_buffer') = Len(stream_buffer) - ConfiguredSize
              /\ pc' = "find"
        /\ (pc # "extract") => extracted' = extracted
      ]_vars

\* a slice has been extracted in a call that first dropped bytes before the
\* marker, and is about to be removed
C6_Witness ==
    /\ pc = "remove"
    /\ Len(sent.garbage) > 0
    /\ Len(extracted) = call_base + 1
    /\ Len(stream_buffer) < Len(appended)
    /\ ~MarkerAt(appended, 0)
    /\ packet_data = sent.packets[1]
    /\ stream_buffer = packet_data

(***************************************************************************)
(* C7: when extraction stops to wait, the buffer is as it was after the    *)
(* chunk was appended and no packet is produced: (a) no marker and at most *)
(* 2 * packet_size bytes (exactly 2 * packet_size included), (b) marker at *)
(* offset 0 and fewer than packet_size bytes; the next call appends to the *)
(* retained bytes.                                                         *)
(***************************************************************************)
WaitCase(buf) ==
    \/ NoMarker(buf) /\ Len(buf) <= 2 * ConfiguredSize
    \/ MarkerAt(buf, 0) /\ Len(buf) < ConfiguredSize

C7_WaitKeepsBuffer ==
    [][ /\ (pc = "find" /\ WaitCase(stream_buffer)) =>
              /\ pc' = "recv"
              /\ stream_buffer' = stream_buffer
              /\ extracted' = extracted /\ delivered' = delivered
        /\ (pc' = "recv" /\ WaitCase(appended')) =>
              /\ stream_buffer' = appended'
              /\ Len(extracted') = call_base'
        /\ (pc = "recv" /\ pc' = "find") =>
              /\ IsPrefix(stream_buffer, stream_buffer')
              /\ Len(stream_buffer') > Len(stream_buffer)
              /\ appended' = stream_buffer'
      ]_vars

\* a call has stopped on exactly 2 * packet_size marker-free bytes and kept them
C7_Witness ==
    /\ Returned
    /\ NoMarker(appended)
    /\ Len(appended) = 2 * ConfiguredSize
    /\ stream_buffer = appended
    /\ Len(extracted) = call_base

(***************************************************************************)
(* C8: whenever _process_incoming_data discards the bytes that precede a   *)
(* found marker (marker at a non-zero offset), a counter of the client's   *)
(* statistics is incremented by at least 1.                                *)
(***************************************************************************)
C8_DiscardCounted ==
    [][ (pc = "find" /\ ~NoMarker(stream_buffer) /\ ~MarkerAt(stream_buffer, 0)) =>
            \E c \in DOMAIN get_statistics : get_statistics'[c] > get_statistics[c]
      ]_vars

(***************************************************************************)
(* C9: for a slice of exactly 28 + 2 * N bytes the decoded record has each *)
(* header field equal to the bytes at its wire offset (little-endian),     *)
(* data equal to the N little-endian signed 16-bit values from offset 28,  *)
(* vector_length N and packet_size the slice length; the packet with       *)
(* packet_number 7 and samples 100, -100, 32767, -32768 is delivered with  *)
(* exactly those values however it is chunked.                             *)
(***************************************************************************)
\* the u16 at 0-based offset k of s
U16At(s, k) == s[k + 1] + 256 * s[k + 2]
\* the u32 at 0-based offset k of s, as <<high half, low half>>
U32At(s, k) == << U16At(s, k + 2), U16At(s, k) >>
\* the i16 at 0-based offset k of s
I16At(s, k) == IF U16At(s, k) >= 32768 THEN U16At(s, k) - 65536 ELSE U16At(s, k)

LayoutHolds(p, s) ==
    /\ p.kind = "packet"
    /\ p.header.magic = << s[1], s[2], s[3], s[4] >>
    /\ p.header.ctp = << U32At(s, 4), U32At(s, 8), U32At(s, 12) >>
    /\ p.header.length_lo = U16At(s, 16)
    /\ p.header.length_hi = s[19]
    /\ p.header.packet_number = s[20]
    /\ p.header.telemetry_a = s[21]
    /\ p.header.telemetry_b = s[22]
    /\ p.header.telemetry_c = s[23]
    /\ p.header.is_full = s[24]
    /\ p.header.buffer_fill = s[25]
    /\ p.header.ascan_count = s[26]
    /\ p.header.reserved_b = s[27]
    /\ p.header.reserved_c = s[28]
    /\ p.data = [i \in 1..((Len(s) - 28) \div 2) |-> I16At(s, 28 + 2 * (i - 1))]
    /\ p.vector_length = (Len(s) - 28) \div 2
    /\ p.packet_size = Len(s)

C9_DecodeLayout ==
    /\ (pc = "remove" /\ Len(packet_data) = ConfiguredSize) =>
          /\ LayoutHolds(packet, packet_data)
          /\ packet.vector_length = ascan_length
          /\ delivered[Len(delivered)] = packet
    /\ (sent.garbage = <<>> /\ sent.packets = << FixturePacket >> /\ Drained) =>
          /\ Len(delivered) = 1
          /\ delivered[1].header.packet_number = 7
          /\ delivered[1].data = << 100, -100, 32767, -32768 >>

\* the fixture packet has been received and delivered
C9_Witness ==
    /\ sent.garbage = <<>> /\ sent.packets = << FixturePacket >>
    /\ ascan_length = 4
    /\ Drained
    /\ bytes_received = 36
    /\ Len(delivered) = 1
    /\ delivered[1].header.magic = MAGIC_BYTES
    /\ delivered[1].header.packet_number = 7
    /\ delivered[1].data = << 100, -100, 32767, -32768 >>
    /\ delivered[1].vector_length = 4
    /\ delivered[1].packet_size = 36

(***************************************************************************)
(* C10: decoding a slice shorter than 28 bytes (the empty slice included)  *)
(* produces no decoded packet and is reported to the caller as the         *)
(* too-short outcome, the returned None, which no other slice produces.    *)
(***************************************************************************)
C10_TooShortIsNone ==
    (pc = "parsed") =>
        /\ (Len(packet_data) < 28) => (packet = [kind |-> "None"])
        /\ (Len(packet_data) >= 28) => (packet.kind \in {"packet", "raise"})

\* the empty slice has been decoded to None
C10_Witness ==
    /\ pc = "parsed"
    /\ packet_data = <<>>
    /\ packet.kind = "None"

(***************************************************************************)
(* C11: decoding a slice of at least 28 bytes whose payload length (slice  *)
(* length - 28) is odd succeeds, returns floor(payload length / 2) samples *)
(* decoded from the leading bytes, and ignores the one trailing byte.      *)
(***************************************************************************)
C11_OddPayloadDecodes ==
    (pc = "parsed" /\ Len(packet_data) >= 28 /\ (Len(packet_data) - 28) % 2 = 1) =>
        /\ packet.kind = "packet"
        /\ packet.vector_length = (Len(packet_data) - 28) \div 2
        /\ packet.data = [i \in 1..((Len(packet_data) - 28) \div 2) |->
                              I16At(packet_data, 28 + 2 * (i - 1))]

(***************************************************************************)
(* C12: the decoder does not require the magic field to equal the marker:  *)
(* every slice of at least 28 bytes with an even payload length decodes,   *)
(* whatever its first 4 bytes are, and those 4 bytes are exposed unchanged *)
(* as header['magic'].                                                     *)
(***************************************************************************)
C12_MagicNotChecked ==
    (pc = "parsed" /\ Len(packet_data) >= 28 /\ (Len(packet_data) - 28) % 2 = 0) =>
        /\ packet.kind = "packet"
        /\ packet.header.magic =
              << packet_data[1], packet_data[2], packet_data[3], packet_data[4] >>

\* a slice beginning with 0, 1, 2, 3 and not with the marker has been decoded
C12_Witness ==
    /\ pc = "parsed"
    /\ Len(packet_data) = 30
    /\ ~MarkerAt(packet_data, 0)
    /\ packet.kind = "packet"
    /\ packet.header.magic = << 0, 1, 2, 3 >>
    /\ packet.vector_length = 1

(***************************************************************************)
(* C13: the decoder has no side effects: for every slice, whether it       *)
(* decodes, is too short or raises, the call leaves the stream buffer,     *)
(* ascan_length, the callback list, running, ws and the counters           *)
(* packets_received, bytes_received and parse_errors unchanged, and its    *)
(* result (the capture timestamp aside) is determined by the slice's bytes *)
(* alone: None below 28 bytes, an error for an odd payload, and otherwise  *)
(* the record laid out from the bytes.                                     *)
(***************************************************************************)
C13_DecoderIsPure ==
    [][ (pc = "parse") =>
          /\ UNCHANGED << stream_buffer, ascan_length, callbacks, running, ws,
                          packets_received, bytes_received, parse_errors >>
          /\ packet_data' = packet_data
          /\ (Len(packet_data) < 28) => packet' = [kind |-> "None"]
          /\ (Len(packet_data) >= 28 /\ (Len(packet_data) - 28) % 2 = 1) =>
                packet' = [kind |-> "raise"]
          /\ (Len(packet_data) >= 28 /\ (Len(packet_data) - 28) % 2 = 0) =>
                LayoutHolds(packet', packet_data)
      ]_vars

\* on a connected client holding a partial packet, a slice that raises has
\* been decoded and nothing of the client has changed
C13_Witness ==
    /\ pc = "parsed"
    /\ Len(packet_data) = 31
    /\ packet.kind = "raise"
    /\ stream_buffer = << 70, 116, 72, 49 >>
    /\ callbacks = << "plot" >>
    /\ running /\ ws # NoWs
    /\ bytes_received = 4 /\ packets_received = 0 /\ parse_errors = 0

(***************************************************************************)
(* C14: a decode failure never halts the stream: when decoding an          *)
(* extracted slice fails inside _process_incoming_data, no callback is     *)
(* invoked for it and the call goes on (it does not raise); exactly that   *)
(* slice's packet_size bytes are removed from the front of the buffer; and *)
(* extraction continues with the rest, so that the complete packet that    *)
(* follows in the same buffer is extracted and delivered.                  *)
(***************************************************************************)
\* a slice the decoder does not decode: shorter than a header, or odd payload
Undecodable(s) == Len(s) < 28 \/ (Len(s) - 28) % 2 = 1

\* p is the end of s
IsSuffix(p, s) == Len(p) <= Len(s) /\ LastBytes(s, Len(p)) = p

C14_FailureDoesNotHalt ==
    [][ /\ (pc = "extract" /\ Undecodable(packet_data')) =>
              /\ delivered' = delivered
              /\ calls' = calls
              /\ pc' = "remove"
        /\ (pc = "remove" /\ Undecodable(packet_data)) =>
              /\ Len(stream_buffer') = Len(stream_buffer) - ConfiguredSize
              /\ IsSuffix(stream_buffer', stream_buffer)
              /\ pc' = "find"
        /\ \A i \in (call_base' + 1)..(Len(extracted') - 1) :
              Undecodable(extracted'[i]) =>
                  /\ ~Undecodable(extracted'[i + 1])
                  /\ \E j \in 1..Len(delivered') :
                        delivered'[j].packet_size = Len(extracted'[i + 1])
      ]_vars

(***************************************************************************)
(* C15: for every decoded packet the callbacks registered with on_data are *)
(* invoked once each, in the order they were registered, and every         *)
(* callback of packet i is invoked before any callback of packet i+1; no   *)
(* callback is invoked at any other moment.                                *)
(***************************************************************************)
C15_CallbacksInOrder ==
    [][ /\ (Len(delivered') = Len(delivered) + 1) =>
              /\ IsPrefix(calls, calls')
              /\ Len(calls') = Len(calls) + Len(callbacks)
              /\ \A i \in 1..Len(callbacks) :
                    calls'[Len(calls) + i] =
                        [callback |-> callbacks[i], packet |-> Len(delivered')]
        /\ (Len(delivered') = Len(delivered)) => calls' = calls
        /\ \A j \in 1..(Len(calls') - 1) : calls'[j].packet <= calls'[j + 1].packet
      ]_vars

\* two callbacks were registered before the first of two packets arrived,
\* and each has been given packet 1 and then packet 2
C15_Witness ==
    /\ Drained
    /\ callbacks = << "plot", "faulty" >>
    /\ Len(delivered) = 2
    /\ calls = << [callback |-> "plot", packet |-> 1],
                  [callback |-> "faulty", packet |-> 1],
                  [callback |-> "plot", packet |-> 2],
                  [callback |-> "faulty", packet |-> 2] >>

(***************************************************************************)
(* C16: a callback that raises is isolated: the callbacks registered after *)
(* it are still invoked for the same packet, the packet is still removed   *)
(* from the buffer, parse_errors is not incremented, later packets are     *)
(* still extracted and delivered, and the receive loop keeps running.      *)
(***************************************************************************)
C16_RaisingCallbackIsolated ==
    [][ /\ (Len(delivered') = Len(delivered) + 1) =>
              /\ \A i \in 1..Len(callbacks) :
                    (callbacks[i] = "faulty") =>
                        \A k \in (i + 1)..Len(callbacks) :
                            \E j \in (Len(calls) + 1)..Len(calls') :
                                calls'[j] = [callback |-> callbacks[k],
                                             packet |-> Len(delivered')]
              /\ parse_errors' = parse_errors
              /\ pc' = "remove"
        /\ (pc = "remove") =>
              \/ /\ stream_buffer' = Drop(stream_buffer, ConfiguredSize)
                 /\ pc' = "find"
              \/ /\ callbacks' # callbacks
                 /\ UNCHANGED << stream_buffer, pc >>
        /\ running' /\ ws' # NoWs
        /\ parse_errors' = 0
        /\ (pc' = "recv" /\ wire' = <<>>) =>
              /\ Len(delivered') = Len(sent.packets)
              /\ packets_received' = Len(sent.packets)
              /\ stream_buffer' = <<>>
      ]_vars

\* a raising callback was registered first and another after it; both have
\* been given both packets, and nothing is counted as an error
C16_Witness ==
    /\ Drained
    /\ callbacks = << "faulty", "plot" >>
    /\ Len(sent.packets) = 2
    /\ packets_received = 2
    /\ parse_errors = 0
    /\ stream_buffer = <<>>
    /\ running
    /\ calls = << [callback |-> "faulty", packet |-> 1],
                  [callback |-> "plot", packet |-> 1],
                  [callback |-> "faulty", packet |-> 2],
                  [callback |-> "plot", packet |-> 2] >>

(***************************************************************************)
(* C17: the stream buffer is empty immediately after each reset operation  *)
(* (set_ascan_length(L) with L > 0 and L different from the current        *)
(* ascan_length, which also makes ascan_length equal L; clear_buffer(); a  *)
(* successful connect()), and no byte received before a reset is ever part *)
(* of a packet delivered after it.                                         *)
(***************************************************************************)
C17_ResetDropsOldBytes ==
    [][ /\ (epoch' # epoch) => stream_buffer' = <<>>
        /\ (ascan_length' # ascan_length) =>
              /\ ascan_length' > 0
              /\ stream_buffer' = <<>>
        /\ \A i \in 1..Len(provenance') :
              provenance'[i].received >= provenance'[i].delivered
      ]_vars

(***************************************************************************)
(* C18: a configuration change is mutually exclusive with an in-flight     *)
(* ingest/extract pass: in no interleaving of the caller's thread and the  *)
(* receive thread does set_ascan_length modify ascan_length or the stream  *)
(* buffer while a _process_incoming_data call on the same client has       *)
(* started and not yet returned.                                           *)
(***************************************************************************)
\* thread t is inside _process_incoming_data: it has appended its chunk and
\* has not yet left the while loop
InFlight(t) ==
    threads[t].pc \in {"size", "find", "store", "check", "slice", "parse", "remove"}

C18_ConfigChangeExcluded ==
    [][ (ascan_length' # ascan_length) =>
            \A t \in 1..MaxThreads : ~InFlight(t)
      ]_vars

(***************************************************************************)
(* C19: after any sequence of connect() and disconnect() calls on one      *)
(* client (connect() twice without a disconnect in between, and connect()  *)
(* after a disconnect() whose join timed out, included), at most one       *)
(* background receive thread is alive and able to append to or shrink the  *)
(* client's stream buffer.                                                 *)
(***************************************************************************)
\* thread t is running and not about to leave its loop: it is waiting in
\* recv(), holds a chunk or is inside _process_incoming_data, or is at the
\* loop test with the flag set and a connection present
Able(t) ==
    /\ t \in Alive
    /\ (threads[t].pc = "while") => (running /\ ws # NoWs)

C19_OneReceiveThread ==
    Cardinality({ t \in 1..MaxThreads : Able(t) }) <= 1

(***************************************************************************)
(* C20: is_connected() returns True only while the client is connected and *)
(* receiving: in every state where the receive loop has exited (connection *)
(* closed by the server, a receive error or timeout, or disconnect()),     *)
(* is_connected() returns False.                                           *)
(***************************************************************************)
C20_ConnectedMeansReceiving ==
    (receive_thread # NoThread /\ threads[receive_thread].pc = "exited") =>
        ~is_connected

(***************************************************************************)
(* C21: disconnect() stops the background receive thread: once             *)
(* disconnect() has returned, is_connected() is False, ws is None, and the *)
(* receive thread invokes no further callback and makes no further change  *)
(* to the stream buffer or the counters.                                   *)
(***************************************************************************)
\* disconnect is the last call that has returned, and no other has begun
DisconnectReturned ==
    /\ caller = "idle"
    /\ last_call = "disconnect"

C21_DisconnectStopsThread ==
    [][ DisconnectReturned =>
            /\ ~is_connected
            /\ ws = NoWs
            /\ (threads' # threads) =>
                  UNCHANGED << calls, stream_buffer, packets_received,
                               bytes_received, parse_errors >>
      ]_vars

(***************************************************************************)
(* C22: the receive loop stops processing only when the transport signals  *)
(* that the stream is closed or the client disconnects: any other event    *)
(* while receiving (a receive timeout on an idle stream, a transient       *)
(* receive error, malformed bytes) leaves the loop running so that chunks  *)
(* arriving later are still processed.                                     *)
(***************************************************************************)
\* thread t leaves _receive_loop in this step
Exits(t) ==
    /\ t \in Alive
    /\ threads'[t].pc = "exited"

C22_LoopEndsOnlyWhenClosed ==
    [][ \A t \in 1..MaxThreads :
            Exits(t) =>
                \/ ~running \/ ws = NoWs
                \/ /\ threads[t].pc = "recv"
                   /\ ~running'
      ]_vars

(***************************************************************************)
(* C23: when opening the WebSocket fails (refused, timeout or any other    *)
(* exception), connect() returns False without raising, starts no receive  *)
(* thread, and leaves ws, running, receive_thread, the stream buffer and   *)
(* all counters as they were before the call; when it succeeds it returns  *)
(* True with running = True and exactly one new receive thread started.    *)
(***************************************************************************)
\* connect returns False in this step, connect returns True in this step
ConnectReturnsFalse ==
    /\ last_call' # last_call
    /\ last_call' = "connect:False"

ConnectReturnsTrue ==
    /\ caller = "start"
    /\ caller' = "idle"
    /\ last_call' = "connect:True"

C23_ConnectOutcome ==
    [][ /\ ConnectReturnsFalse =>
              /\ Started' = Started
              /\ UNCHANGED << ws, running, receive_thread, stream_buffer,
                              packets_received, bytes_received, parse_errors >>
        /\ ConnectReturnsTrue =>
              /\ running'
              /\ Cardinality(Started' \ Started) = 1
      ]_vars

(***************************************************************************)
(* A device configured for another vector length than the client: every    *)
(* packet it sends is valid and starts with the marker, and is not of the  *)
(* client's packet size.                                                   *)
(***************************************************************************)
\* the vector lengths the device may be configured for
DeviceLengths == 0..(MaxAscanLength + 1)

\* streams of 1..MaxPackets device packets with the marker at offset 0 only
DeviceStreams(device_length) ==
    { [garbage |-> <<>>, packets |-> p] :
        p \in { q \in SeqsUpTo({ PacketOf(PacketSize(device_length), kind) :
                                   kind \in {"zero", "ramp"} }, MaxPackets) :
                  q # <<>> } }

InitMismatch ==
    /\ \E length \in 0..MaxAscanLength : Constructed(length)
    /\ \E device_length \in DeviceLengths \ {ascan_length} :
          sent \in DeviceStreams(device_length)
    /\ Connected
    /\ wire = Concat(sent.packets)
    /\ packet_data = <<>>
    /\ packet = NoPacket
    /\ pc = "recv"
    /\ NoReader

SpecMismatch == InitMismatch /\ [][Next]_vars

(***************************************************************************)
(* C24: a mismatch between the client's ascan_length and the length of the *)
(* packets the device actually sends becomes visible in the client's       *)
(* counters: when the device streams valid marker-prefixed packets of one  *)
(* size and the client is configured for a different size, parse_errors    *)
(* (or another failure/noise counter in get_statistics) eventually becomes *)
(* greater than 0.  get_statistics has no other such counter; the property *)
(* is stated for the moment the whole stream has been processed and at     *)
(* least one slice has been cut from it.                                   *)
(***************************************************************************)
C24_MismatchCounted ==
    (Drained /\ extracted # <<>>) => get_statistics.parse_errors > 0

(***************************************************************************)
(* C25: every packet delivered to a callback has vector_length equal to    *)
(* the client's configured ascan_length at the moment the callback is      *)
(* invoked, and packet_size equal to 28 + 2*ascan_length, in every         *)
(* reachable state including runs where set_ascan_length is called while   *)
(* data is being received.                                                 *)
(***************************************************************************)
C25_DeliveredAsConfigured ==
    [][ (delivered' # delivered) =>
            LET handed == delivered'[Len(delivered')]
            IN  /\ handed.vector_length = ascan_length
                /\ handed.packet_size = 28 + 2 * ascan_length
      ]_vars

(***************************************************************************)
(* C26: the accumulator never hands the decoder a slice shorter than the   *)
(* 28-byte header: in every state reachable through the constructor and    *)
(* set_ascan_length, packet_size is at least HEADER_LENGTH, so the         *)
(* too-short outcome of _parse_packet never occurs for a slice extracted   *)
(* by _process_incoming_data.                                              *)
(***************************************************************************)
C26_SliceHoldsHeader ==
    /\ (pc # "recv") => packet_size >= HEADER_LENGTH
    /\ \A i \in 1..Len(extracted) :
          /\ Len(extracted[i]) >= HEADER_LENGTH
          /\ _parse_packet(extracted[i]) # ReturnNone

(***************************************************************************)
(* C27: every call to _process_incoming_data terminates without blocking:  *)
(* for any chunk, any prior buffer content and any configured              *)
(* ascan_length, each loop iteration that does not stop removes at least   *)
(* one byte from the buffer, so the loop runs at most                      *)
(* floor(len(buffer) / packet_size) + 1 iterations.  An iteration that     *)
(* does not stop ends with the removal of its slice; the last iteration is *)
(* the one that stops, so the slices of one call number at most            *)
(* floor(len(buffer) / packet_size).                                       *)
(***************************************************************************)
C27_EachIterationRemoves ==
    [][ /\ (pc = "remove") => Len(stream_buffer') < Len(stream_buffer)
        /\ packet_size' > 0 =>
              Len(extracted') - call_base' <= Len(appended') \div packet_size'
      ]_vars

(***************************************************************************)
(* Resynchronisation: a run of bytes that belong to no packet, with false  *)
(* occurrences of the marker in it, followed by MaxPackets packets that    *)
(* hold the marker at offset 0 only.                                       *)
(***************************************************************************)
\* len bytes 0 with the marker written at each of the 1-based positions offs
\* (where two overlap, the later one is whole)
FalseMarkers(len, offs) ==
    [i \in 1..len |->
        LET over == { m \in offs : i >= m /\ i < m + Len(MAGIC_BYTES) }
        IN  IF over = {} THEN 0
            ELSE MAGIC_BYTES[i - (CHOOSE m \in over : \A o \in over : o <= m) + 1]]

\* the lengths of the run: shorter than a header, longer than one packet,
\* longer than two
ResyncLens(ps) ==
    (1..(Len(MAGIC_BYTES) + MaxShortGarbage))
        \cup ((ps + 1)..(ps + MaxOver)) \cup ((2 * ps + 1)..(2 * ps + MaxOver))

\* the runs: no marker, a marker at the start, at the end, at both, or the
\* marker's first three bytes at the end
ResyncGarbage(ps) ==
    UNION { { FalseMarkers(len, offs) :
                offs \in SUBSET ({1, len - 3} \cap (1..(len - 3))) } :
            len \in ResyncLens(ps) }
    \cup { GarbageOf(len, "tail") : len \in ResyncLens(ps) }

\* the packets that follow: a ramp, then all 0, and so on
ResyncPackets(ps) ==
    [i \in 1..MaxPackets |-> PacketOf(ps, IF i % 2 = 1 THEN "ramp" ELSE "zero")]

InitResync ==
    /\ \E length \in 0..MaxAscanLength : Constructed(length)
    /\ \E g \in ResyncGarbage(PacketSize(ascan_length)) :
          sent = [garbage |-> g, packets |-> ResyncPackets(PacketSize(ascan_length))]
    /\ Connected
    /\ wire = sent.garbage \o Concat(sent.packets)
    /\ packet_data = <<>>
    /\ packet = NoPacket
    /\ pc = "recv"
    /\ NoReader

SpecResync == InitResync /\ [][Next]_vars

(***************************************************************************)
(* C28: resynchronisation loses at most one real packet: if arbitrary      *)
(* bytes G (of any length, possibly containing false occurrences of the    *)
(* marker) are received and are followed by K >= 2 valid packets whose     *)
(* bytes contain the marker only at offset 0, then for every chunking the  *)
(* real packets 2..K are each extracted byte-for-byte and in order; only   *)
(* slices starting at false markers inside G, and at most the first real   *)
(* packet, can be lost or mis-framed.  Stated once the whole stream is     *)
(* processed: the last K-1 slices are the packets 2..K, and every slice    *)
(* before them is the first packet or was cut at a marker inside G.        *)
(***************************************************************************)
\* slice e was cut from the stream at a 0-based offset inside the run G
CutInside(e, G, stream) ==
    \E k \in 0..(Len(G) - 1) :
        /\ k + Len(e) <= Len(stream)
        /\ SubSeq(stream, k + 1, k + Len(e)) = e

C28_ResyncLosesOnePacket ==
    Drained =>
        LET K == Len(sent.packets)
            before == Len(extracted) - (K - 1)
        IN  /\ before >= 0
            /\ \A i \in 2..K : extracted[before + i - 1] = sent.packets[i]
            /\ \A j \in 1..before :
                  \/ extracted[j] = sent.packets[1]
                  \/ CutInside(extracted[j], sent.garbage,
                               sent.garbage \o Concat(sent.packets))

\* a false marker at the end of G has taken the first packet's bytes: the
\* first packet is lost and the second one is extracted
C28_Witness ==
    /\ Drained
    /\ sent.garbage # <<>>
    /\ Len(sent.packets) >= 2
    /\ \A j \in 1..Len(extracted) : extracted[j] # sent.packets[1]
    /\ Len(extracted) >= 2
    /\ extracted[Len(extracted)] = sent.packets[Len(sent.packets)]

(***************************************************************************)
(* C29: overflow truncation never destroys the start of a real packet:     *)
(* when a marker-free buffer longer than 2*packet_size is truncated to its *)
(* trailing packet_size bytes, a proper prefix of the marker (1 to 3       *)
(* bytes) sitting at the end of the buffer is retained, so a marker split  *)
(* across two chunks is still found at its true position and the packet it *)
(* starts is extracted exactly once the rest arrives.                      *)
(***************************************************************************)
\* s ends with the first k bytes of the marker
EndsWithMarkerPrefix(s, k) == IsSuffix(Take(MAGIC_BYTES, k), s)

C29_TruncationKeepsSplitMarker ==
    [][ /\ (pc = "find" /\ NoMarker(stream_buffer)
                        /\ Len(stream_buffer) > 2 * ConfiguredSize) =>
              \A k \in 1..3 :
                  EndsWithMarkerPrefix(stream_buffer, k) =>
                      EndsWithMarkerPrefix(stream_buffer', k)
        /\ (Drained' /\ NoMarker(sent.garbage \o Take(MAGIC_BYTES, 3))) =>
              extracted' = sent.packets
      ]_vars

\* the first packet's marker was split: the buffer of the last call ended
\* with the packet's first bytes, held no marker, and was truncated
C29_Witness ==
    /\ Returned
    /\ sent.packets # <<>>
    /\ NoMarker(appended)
    /\ Len(appended) > 2 * ConfiguredSize
    /\ \E k \in 1..3 : /\ appended = sent.garbage \o Take(sent.packets[1], k)
                       /\ EndsWithMarkerPrefix(stream_buffer, k)
    /\ Len(stream_buffer) = ConfiguredSize

(***************************************************************************)
(* C30: byte accounting: with one receive thread, a fixed                  *)
(* ascan_length >= 0 and no reset call, after every processed chunk        *)
(* bytes_received equals the sum of the lengths of all chunks received and *)
(* packets_received * packet_size + len(stream_buffer) <= bytes_received;  *)
(* no byte is delivered in more than one packet and no byte is duplicated  *)
(* in the buffer.  The buffer is the end of what was received, and the     *)
(* slices lie one after the other, without overlap, in what was received   *)
(* before the buffer's bytes.                                              *)
(***************************************************************************)
\* the slices occur in s one after the other without overlap, the first of
\* them at 0-based offset from or later (each taken at its earliest place)
RECURSIVE LieInOrder(_, _, _)
LieInOrder(slices, s, from) ==
    IF slices = <<>> THEN TRUE
    ELSE LET e == Head(slices)
             places == { k \in from..(Len(s) - Len(e)) :
                            SubSeq(s, k + 1, k + Len(e)) = e }
         IN  /\ places # {}
             /\ LieInOrder(Tail(slices), s,
                           (CHOOSE k \in places : \A j \in places : k <= j) + Len(e))

C30_ByteAccounting ==
    Returned =>
        LET received == Take(sent.garbage \o Concat(sent.packets),
                             Len(sent.garbage \o Concat(sent.packets)) - Len(wire))
        IN  /\ bytes_received = Len(received)
            /\ packets_received * ConfiguredSize + Len(stream_buffer) <= bytes_received
            /\ IsSuffix(stream_buffer, received)
            /\ LieInOrder(extracted,
                          Take(received, Len(received) - Len(stream_buffer)), 0)

\* bytes before a marker have been dropped, a packet has been delivered and
\* the beginning of the next one waits in the buffer
C30_Witness ==
    /\ Returned
    /\ packets_received >= 1
    /\ stream_buffer # <<>>
    /\ packets_received * ConfiguredSize + Len(stream_buffer) < bytes_received

ParseFails(t) ==
    /\ threads[t].pc = "parse"
    /\ threads'[t].pc = "remove"
    /\ _parse_packet(threads[t].packet_data).kind = "raise"

C32_OnlyParseErrorsCounted ==
    [][ (parse_errors' # parse_errors) =>
            /\ parse_errors' = parse_errors + 1
            /\ \E t \in 1..MaxThreads : ParseFails(t)
      ]_vars

(***************************************************************************)
(* C33: in every interleaving of disconnect() with the receive thread, a   *)
(* disconnect is not counted as an error: because running is set to False  *)
(* before the socket is closed and ws is set to None, any exception the    *)
(* receive thread sees as a result of disconnect() leaves parse_errors     *)
(* unchanged and ends the loop.                                            *)
(***************************************************************************)
\* thread t is in recv() on a connection that disconnect has closed, and
\* recv() raises in this step
SeesDisconnect(t) ==
    /\ threads[t].pc = "recv"
    /\ sockets[threads[t].ws].closed
    /\ threads'[t] # threads[t]

C33_DisconnectNotCounted ==
    [][ \A t \in 1..MaxThreads :
            SeesDisconnect(t) =>
                /\ parse_errors' = parse_errors
                /\ threads'[t].pc = "exited"
      ]_vars

(***************************************************************************)
(* C34: a reset is never lost to a race: in every interleaving of          *)
(* clear_buffer() (or the clear inside set_ascan_length or connect) on the *)
(* caller's thread with _process_incoming_data on the receive thread, once *)
(* the reset and the in-flight pass have both returned the stream buffer   *)
(* contains no byte that was received before the reset began.              *)
(***************************************************************************)
\* no call of the caller's thread is running and no receive thread is
\* inside _process_incoming_data
BothReturned ==
    /\ caller = "idle"
    /\ \A t \in 1..MaxThreads : ~InFlight(t)

C34_ResetNotLost ==
    BothReturned => \A i \in 1..Len(stamps) : stamps[i] >= epoch

(***************************************************************************)
(* The application changing the expected length between the steps of the   *)
(* receive path: a client with one callback registered, a stream of        *)
(* packets of the length it was constructed for, and set_ascan_length      *)
(* called with lengths below, at and above the configured one.             *)
(***************************************************************************)
\* the lengths passed to set_ascan_length
ConfigLengths == (-1)..(MaxAscanLength + 1)

\* the streams of no packet or one whole packet
ConfigureStreams(ps) ==
    { s \in PacketStreams(ps) : Len(s.packets) <= 1 }

InitConfigure ==
    /\ \E length \in 1..MaxAscanLength : ClientFields(length)
    /\ callbacks = << "plot" >>
    /\ sent \in ConfigureStreams(PacketSize(ascan_length))
    /\ Connected
    /\ wire = Concat(sent.packets)
    /\ packet_data = <<>>
    /\ packet = NoPacket
    /\ pc = "recv"
    /\ NoReader

NextConfigure ==
    \/ Next
    \/ \E length \in ConfigLengths : set_ascan_length(length)

SpecConfigure == InitConfigure /\ [][NextConfigure]_vars

(***************************************************************************)
(* C35: set_ascan_length(L) with L <= 0, or with L equal to the current    *)
(* ascan_length, changes nothing: ascan_length, the stream buffer          *)
(* (including a retained partial packet), the callbacks and the counters   *)
(* are all unchanged; and no call to set_ascan_length ever makes           *)
(* ascan_length non-positive.                                              *)
(***************************************************************************)
C35_RejectedLengthChangesNothing ==
    [][ \A L \in ConfigLengths :
            set_ascan_length(L) =>
                /\ (L <= 0 \/ L = ascan_length) =>
                      UNCHANGED << ascan_length, stream_buffer, callbacks,
                                   packets_received, bytes_received, parse_errors >>
                /\ ascan_length' > 0
      ]_vars

\* set_ascan_length has been called, no call has reset the buffer, and the
\* beginning of a packet is still waiting in it
C35_Witness ==
    /\ last_call = "set_ascan_length"
    /\ epoch = 0
    /\ Returned
    /\ stream_buffer # <<>>
    /\ Len(stream_buffer) < ConfiguredSize
    /\ callbacks # <<>>

(***************************************************************************)
(* websocket_example_save_data, from the client it creates: it registers   *)
(* save_waveform, connects, waits in                                       *)
(*     while len(saved_waveforms) < max_waveforms and                      *)
(*           client.is_connected(): time.sleep(0.1)                        *)
(* and disconnects when the loop is left.  A turn of the loop changes      *)
(* nothing, so the wait is the example standing between its connect and    *)
(* its disconnect.  The receive thread has ended whenever is_connected()   *)
(* is False with fewer than max_waveforms saved, so the join of that       *)
(* disconnect has nothing to wait for.                                     *)
(***************************************************************************)
\* the device's stream after start_auto_ascan: whole packets of any content
SaveDataStreams(ps) ==
    { s \in Scenarios(ps) : s.garbage = <<>> }

InitSaveData ==
    /\ ClientFields(1)
    /\ callbacks = << "save_waveform" >>
    /\ Unconnected
    /\ sent \in SaveDataStreams(PacketSize(1))
    /\ wire = <<>>
    /\ packet_data = <<>>
    /\ packet = NoPacket
    /\ pc = "threads"
    /\ NoReader

\* if client.connect(): create_connection succeeding
save_data_connect ==
    /\ last_call = "__init__"
    /\ connect

\* if client.connect(): ... else: print("Failed to connect")
save_data_failed ==
    /\ last_call = "__init__"
    /\ connect_fails

\* the while test failing; set_parameter; client.disconnect()
save_data_disconnect ==
    /\ last_call = "connect:True"
    /\ ~(Len(saved_waveforms) < max_waveforms /\ is_connected)
    /\ disconnect

NextSaveData ==
    \/ save_data_connect
    \/ connect_start
    \/ save_data_failed
    \/ save_data_disconnect
    \/ \E t \in 1..MaxThreads :
        \/ thread_while(t)
        \/ thread_recv(t)
        \/ thread_closed(t)
        \/ thread_error(t)
        \/ thread_extend(t)
        \/ thread_size(t)
        \/ thread_find(t)
        \/ thread_store(t)
        \/ thread_check(t)
        \/ thread_slice(t)
        \/ thread_parse(t)
        \/ thread_remove(t)

SpecSaveData == InitSaveData /\ [][NextSaveData]_vars

(***************************************************************************)
(* C36: websocket_example_save_data eventually finishes after a successful *)
(* connect: its wait loop (while fewer than 20 waveforms are saved and     *)
(* client.is_connected()) exits in every run in which the receive thread   *)
(* stops before 20 packets arrive, whether it stopped because the server   *)
(* closed the connection or because of a receive error or timeout; and     *)
(* saved_waveforms never holds more than 20 entries.  The loop exits when  *)
(* its test fails: stated for the states in which the example is in the    *)
(* loop and the receive thread has stopped.                                *)
(***************************************************************************)
\* the example is in its wait loop
InWaitLoop ==
    /\ caller = "idle"
    /\ last_call = "connect:True"

\* the receive thread started by the example's connect has left its loop
ThreadStopped ==
    /\ receive_thread # NoThread
    /\ threads[receive_thread].pc = "exited"

C36_SaveDataFinishes ==
    /\ (InWaitLoop /\ ThreadStopped /\ Len(saved_waveforms) < 20) => ~is_connected
    /\ Len(saved_waveforms) <= 20

(***************************************************************************)
(* read_binary_data, the data thread of the SCPI example, from the moment  *)
(* its socket is connected and has its timeout of 1.0 s.  The peer is the  *)
(* instrument's data port: it sends its stream in pieces of any size and   *)
(* may close at any moment.  s.recv(length_bytes) returns between one and  *)
(* length_bytes of the bytes in flight, returns b'' once the peer has      *)
(* closed and nothing is in flight, raises socket.timeout when nothing     *)
(* arrives within the timeout, and may raise another error at any call.    *)
(* The main thread sets stop_event after its five seconds and joins.       *)
(***************************************************************************)
\* the client's variables, which the SCPI example does not touch
websocket_vars ==
    << ascan_length, stream_buffer, packets_received, bytes_received,
       parse_errors, ws, running, callbacks, pc, packet_size, packet_data,
       packet, wire, sent, extracted, delivered, appended, call_base, calls,
       receive_thread, threads, sockets, epoch, stamps, provenance,
       caller, last_call, saved_waveforms >>

\* the number of bytes the data port sends, and the largest length_bytes
MaxStream == 3
MaxLengthBytes == 2

\* the bytes the data port sends, each different from the others
ScpiStream == [i \in 1..MaxStream |-> i]

\* raw_data[counter] = data, on a dictionary
DictSet(dict, key, value) ==
    [k \in DOMAIN dict \cup {key} |-> IF k = key THEN value ELSE dict[k]]

InitReadBinary ==
    /\ ClientFields(1)
    /\ callbacks = <<>>
    /\ Unconnected
    /\ sent = [garbage |-> <<>>, packets |-> <<>>]
    /\ wire = <<>>
    /\ packet_data = <<>>
    /\ packet = NoPacket
    /\ pc = "threads"
    /\ reader_pc = "while"
    /\ stop_event = FALSE
    /\ raw_data = [key \in {} |-> <<>>]
    /\ counter = 0
    /\ length_bytes \in 1..MaxLengthBytes
    /\ peer = [unsent |-> ScpiStream, wire |-> <<>>, closed |-> FALSE]

\* the data port sending the next n bytes of its stream
peer_send ==
    /\ ~peer.closed
    /\ \E n \in 1..Len(peer.unsent) :
        peer' = [peer EXCEPT !.unsent = SubSeq(peer.unsent, n + 1, Len(peer.unsent)),
                             !.wire = peer.wire \o SubSeq(peer.unsent, 1, n)]
    /\ UNCHANGED << reader_pc, stop_event, raw_data, counter, length_bytes,
                    websocket_vars >>

\* the data port closing the connection
peer_close ==
    /\ ~peer.closed
    /\ peer' = [peer EXCEPT !.closed = TRUE]
    /\ UNCHANGED << reader_pc, stop_event, raw_data, counter, length_bytes,
                    websocket_vars >>

\* stop_event.set(), by the main thread
stop_event_set ==
    /\ ~stop_event
    /\ stop_event' = TRUE
    /\ UNCHANGED << reader_pc, raw_data, counter, length_bytes, peer,
                    websocket_vars >>

\* while not stop_event.is_set():
reader_while ==
    /\ reader_pc = "while"
    /\ reader_pc' = IF stop_event THEN "returned" ELSE "recv"
    /\ UNCHANGED << stop_event, raw_data, counter, length_bytes, peer,
                    websocket_vars >>

\* data = s.recv(length_bytes), not empty: raw_data[counter] = data;
\* counter = counter + 1
reader_recv_data ==
    /\ reader_pc = "recv"
    /\ \E n \in 1..Min(length_bytes, Len(peer.wire)) :
        /\ raw_data' = DictSet(raw_data, counter, SubSeq(peer.wire, 1, n))
        /\ peer' = [peer EXCEPT !.wire = SubSeq(peer.wire, n + 1, Len(peer.wire))]
    /\ counter' = counter + 1
    /\ reader_pc' = "while"
    /\ UNCHANGED << stop_event, length_bytes, websocket_vars >>

\* data = s.recv(length_bytes) returning b'': if not data: break
reader_recv_empty ==
    /\ reader_pc = "recv"
    /\ peer.closed
    /\ peer.wire = <<>>
    /\ reader_pc' = "returned"
    /\ UNCHANGED << stop_event, raw_data, counter, length_bytes, peer,
                    websocket_vars >>

\* except socket.timeout: continue
reader_timeout ==
    /\ reader_pc = "recv"
    /\ ~peer.closed
    /\ peer.wire = <<>>
    /\ reader_pc' = "while"
    /\ UNCHANGED << stop_event, raw_data, counter, length_bytes, peer,
                    websocket_vars >>

\* except Exception as e: continue, with the key counter moved on
reader_error_skips_key ==
    /\ reader_pc = "recv"
    /\ reader_pc' = "while"
    /\ counter' = counter + 1
    /\ UNCHANGED << stop_event, raw_data, length_bytes, peer,
                    websocket_vars >>

\* except Exception as e: continue
reader_error ==
    /\ reader_pc = "recv"
    /\ reader_pc' = "while"
    /\ UNCHANGED << stop_event, raw_data, counter, length_bytes, peer,
                    websocket_vars >>

\* a step of the data thread
reader_step ==
    \/ reader_while
    \/ reader_recv_data
    \/ reader_recv_empty
    \/ reader_timeout
    \/ reader_error

NextReadBinary ==
    \/ peer_send
    \/ peer_close
    \/ stop_event_set
    \/ reader_while
    \/ reader_recv_data
    \/ reader_recv_empty
    \/ reader_timeout
    \/ reader_error

SpecReadBinary == InitReadBinary /\ [][NextReadBinary]_vars

\* the data thread keeps running until it returns, and every recv() returns
\* or raises within the socket's timeout of 1.0 s
SpecReadBinaryFair == SpecReadBinary /\ WF_vars(reader_step)

(***************************************************************************)
(* C37: read_binary_data stores each non-empty received chunk under        *)
(* consecutive integer keys 0, 1, 2, ... of raw_data in receive order (a   *)
(* timeout or a receive error stores nothing and skips no key), and it     *)
(* returns once stop_event is set or the peer closes the connection (empty *)
(* recv); a receive error alone never ends the loop.                       *)
(***************************************************************************)
\* the values of raw_data in the order of its keys 0, 1, 2, ...
InKeyOrder == [i \in 1..counter |-> raw_data[i - 1]]

\* the keys are 0..counter-1, no chunk is empty, and the chunks in key order
\* are the bytes received so far, in the order the peer sent them
ChunksInReceiveOrder ==
    /\ DOMAIN raw_data = 0..(counter - 1)
    /\ \A key \in DOMAIN raw_data : raw_data[key] # <<>>
    /\ Concat(InKeyOrder) \o peer.wire \o peer.unsent = ScpiStream

\* a timeout or an error stores nothing, skips no key and goes back to the
\* loop's test; an empty recv returns; the loop is left in no other way
\* than by its test with stop_event set or by an empty recv
LoopEndsAsSaid ==
    /\ (reader_timeout \/ reader_error) =>
          /\ raw_data' = raw_data
          /\ counter' = counter
          /\ reader_pc' = "while"
    /\ reader_recv_empty => reader_pc' = "returned"
    /\ (reader_pc # "returned" /\ reader_pc' = "returned") =>
          \/ reader_pc = "while" /\ stop_event
          \/ reader_pc = "recv" /\ peer.closed /\ peer.wire = <<>>

C37_ReadBinaryData ==
    /\ []ChunksInReceiveOrder
    /\ [][LoopEndsAsSaid]_vars
    /\ (stop_event ~> reader_pc = "returned")

\* two chunks stored under the keys 0 and 1, then stopped by stop_event
C37_Witness ==
    /\ reader_pc = "returned"
    /\ stop_event
    /\ ~peer.closed
    /\ counter = 2
    /\ DOMAIN raw_data = {0, 1}

====
